---- MODULE Spec2Model ----
(***************************************************************************)
(* Consensus core of aporia-network: the voting manager                    *)
(* (consensus/voting.rs), the block producer (consensus/block_producer.rs),*)
(* the identity verifier (consensus/identity.rs), the consensus state      *)
(* (consensus/types.rs) and Consensus::process_block (consensus/mod.rs).   *)
(*                                                                         *)
(* Every async fn is run by a task.  A task's position (pc) is the await   *)
(* point it is suspended at; one action is the code between two lock       *)
(* acquisitions.  A lock that the code keeps across an await is visible    *)
(* in the pc of the task that holds it (VotesWriteLocked, StateReadLocked).*)
(***************************************************************************)
EXTENDS Integers, Sequences, FiniteSets, TLC

(***************************************************************************)
(* Bounds of the model.                                                    *)
(***************************************************************************)
NumTasks == 2
MaxValidators == 3
MaxWeight == 2
MaxVoteHashes == 1
MaxHeight == 2
MaxTime == 2
\* config.block_time and config.epoch_length, scaled down.
BlockTime == 2
EpochLength == 2

Tasks == 1..NumTasks
ValidatorIds == 1..MaxValidators

(***************************************************************************)
(* Field elements and hashing.  A field element is the byte string it was  *)
(* derived from (SHA3 is taken to be collision free); Fr::zero() is the    *)
(* empty string.  to_bytes has a fixed width, which the length prefix      *)
(* stands for, so that concatenations stay injective.                      *)
(***************************************************************************)
Zero == <<>>

ToBytes(fr) == <<Len(fr)>> \o fr

\* The preimage calculate_block_hash feeds to Sha3_256.
HashPreimage(st) == <<st.height>> \o ToBytes(st.last_block_hash)

RECURSIVE ChainHash(_)
\* last_block_hash after n blocks that each carry the hash create_block gives.
ChainHash(n) ==
    IF n = 0 THEN Zero
    ELSE HashPreimage([height |-> n - 1, last_block_hash |-> ChainHash(n - 1)])

\* The block hashes votes are submitted for.
VoteHashes == {ChainHash(n) : n \in 1..MaxVoteHashes}

(***************************************************************************)
(* Values of the voting manager.                                           *)
(***************************************************************************)
EmptySig == <<>>
TestSig == <<1, 2, 3>>
Signatures == {EmptySig, TestSig}

\* f64 thresholds as exact fractions num/den.
Thresholds == {[num |-> 67, den |-> 100], [num |-> 1, den |-> 2]}

\* HashMap<ValidatorId, u64>: a function on the ids that have an entry.
WeightMaps == UNION {[S -> 1..MaxWeight] : S \in SUBSET ValidatorIds}

NoVote == [voter |-> 0, block_hash |-> Zero, signature |-> EmptySig]

(***************************************************************************)
(* Values of the block producer and the consensus state.                   *)
(***************************************************************************)
\* Vec<u8> proof blobs: empty, one the proof system rejects, one it accepts.
EmptyProof == <<>>
BadProof == <<0>>
GoodProof == <<1, 2, 3>>
ProofBlobs == {EmptyProof, BadProof, GoodProof}

\* A field element that is no hash of this chain.
JunkFr == <<255>>

IdentityProof(blob) == [proof |-> blob, public_inputs |-> <<>>]

NoBlock ==
    [height |-> 0, timestamp |-> 0, prev_hash |-> Zero, hash |-> Zero,
     producer |-> 0, identity_proof |-> IdentityProof(EmptyProof),
     epoch_length |-> 0]

\* ConsensusConfig: the fields the modelled code reads.
TestConfig == [block_time |-> BlockTime, epoch_length |-> EpochLength]

\* The ids blocks name as their producer.
Producers == {1, MaxValidators}

\* SystemTime::now() as seconds.
Times == 0..MaxTime

\* The value a call returned: Ok(..) or Err(ConsensusError::kind(msg)).
Result(kind, msg, b) == [kind |-> kind, msg |-> msg, block |-> b]
NoResult == Result("None", "", NoBlock)

VARIABLES
    threshold,        \* VotingManager.threshold
    votes,            \* VotingManager.votes : block hash -> list of votes
    weights,          \* VotingManager.weights
    config,           \* the ConsensusConfig the components were built with
    state,            \* the shared ConsensusState
    last_block_time,  \* BlockProducer.last_block_time
    fr_reject,        \* digests that Fr::from_random_bytes turns down
    validators,       \* the shared ValidatorSet
    quorum_seen,      \* history: the hashes a submit_vote returned true for
    pc,               \* the await point each task is suspended at
    vote,             \* the Vote a task's submit_vote works on
    blk,              \* the Block a task's call works on
    ret,              \* the value the last finished call returned
    ledger,           \* StateManager.state: the State transitions work on
    result,           \* what the last StateTransition call returned
    overflow_checks,  \* the build panics on integer overflow (else wraps)
    storage,          \* the State that StateStorage::save_state has saved
    update,           \* the StateUpdate a task's apply_update works on
    new_state,        \* the new State a task's apply_update has computed
    accepted,         \* history: the updates apply_update returned Ok for
    the_account,      \* the Account that update_balance is called on
    deposited,        \* history: the first balance plus the amounts accepted
    calls,            \* history: the number of calls made
    cancels,          \* history: the number of calls that were cancelled
    held,             \* the lock guards each task holds, oldest first
    queue,            \* the requests waiting at each lock, oldest first
    prog,             \* the lock operations each task's call has yet to do
    tree,             \* MerkleTree: the nodes, each at its path from the root
    tree_depth,       \* MerkleTree.depth
    merkle_call,      \* history: the last call on the tree and its proof
    candidates,       \* the ValidatorSet the selector reads
    iteration_order,  \* the order in which the set's HashMap iterates
    rng,              \* ValidatorSelector.rng: its output and its position
    selections,       \* history: what each select_next_validators returned
    digests,          \* SHA3-256 read as a field element, where it was taken
    sig_call,         \* history: the last call of sign or verify
    first_signed,     \* history: what sign returned first for a key and message
    crypto_call,      \* history: the last constructor of the crypto suite called
    manager_call,     \* history: the last call of the ValidatorManager
    applied_time,     \* history: the timestamp of the block applied last
    proof_call,       \* history: the last call of State::verify_proof
    memory,           \* MemoryStorage: its accounts and its root
    db,               \* PersistentStorage.db: the database, key to bytes
    storage_call,     \* history: the last call on a StateStorage
    last_saved        \* history: the accounts last saved to each storage

vars == <<threshold, votes, weights, config, state, last_block_time,
          fr_reject, validators, quorum_seen, pc, vote, blk, ret,
          ledger, result, overflow_checks, storage, update, new_state,
          accepted, the_account, deposited, calls, cancels, held, queue,
          prog, tree, tree_depth, merkle_call, candidates, iteration_order,
          rng, selections, digests, sig_call, first_signed, crypto_call,
          manager_call, applied_time, proof_call, memory, db, storage_call,
          last_saved>>

votingVars == <<threshold, votes, weights, quorum_seen, vote>>
blockVars == <<config, state, last_block_time, fr_reject, validators, blk>>
accountVars == <<the_account, deposited, calls>>
lockVars == <<held, queue, prog>>
merkleVars == <<tree, tree_depth, merkle_call>>
selectVars == <<candidates, iteration_order, rng, selections>>
signVars == <<digests, sig_call, first_signed>>
storeVars == <<proof_call, memory, db, storage_call, last_saved>>
kitVars == <<crypto_call, manager_call, applied_time, storeVars>>
libVars ==
    <<accountVars, cancels, lockVars, merkleVars, selectVars, signVars,
      kitVars>>
notAccount ==
    <<cancels, lockVars, merkleVars, selectVars, signVars, kitVars>>
notCancel ==
    <<accountVars, lockVars, merkleVars, selectVars, signVars, kitVars>>
notLocks ==
    <<accountVars, cancels, merkleVars, selectVars, signVars, kitVars>>
notMerkle ==
    <<accountVars, cancels, lockVars, selectVars, signVars, kitVars>>
notSelect ==
    <<accountVars, cancels, lockVars, merkleVars, signVars, kitVars>>
notKit ==
    <<accountVars, cancels, lockVars, merkleVars, selectVars, signVars>>
notSign ==
    <<accountVars, cancels, lockVars, merkleVars, selectVars, kitVars>>
stateVars ==
    <<ledger, result, overflow_checks, storage, update, new_state, accepted,
      libVars>>

(***************************************************************************)
(* VotingManager                                                           *)
(***************************************************************************)
RECURSIVE SumValues(_)
\* weights.values().sum()
SumValues(w) ==
    IF DOMAIN w = {} THEN 0
    ELSE LET k == CHOOSE x \in DOMAIN w : TRUE
         IN  w[k] + SumValues([x \in DOMAIN w \ {k} |-> w[x]])

RECURSIVE VoteWeight(_, _)
\* votes.iter().filter_map(|vote| weights.get(&vote.voter)).sum()
VoteWeight(vs, w) ==
    IF vs = <<>> THEN 0
    ELSE (IF Head(vs).voter \in DOMAIN w THEN w[Head(vs).voter] ELSE 0)
         + VoteWeight(Tail(vs), w)

\* Mutant of F64DivGe: a strict comparison.
F64DivGt(a, b, th) ==
    IF b = 0 THEN a > 0
    ELSE a * th.den > th.num * b

\* Mutant of F64DivGe: the threshold is taken to be two thirds.
F64DivGeTwoThirds(a, b, th) ==
    IF b = 0 THEN a > 0
    ELSE a * 3 >= 2 * b

\* (a as f64 / b as f64) >= th.  0/0 is NaN, which compares false with
\* everything; a/0 for a > 0 is +infinity.  For the integers of this model
\* the f64 quotient and the f64 threshold are ordered as the exact fractions.
F64DivGe(a, b, th) ==
    IF b = 0 THEN a > 0
    ELSE a * th.den >= th.num * b

CheckConsensus(block_votes, w, th) ==
    LET total_weight == SumValues(w)
        vote_weight == VoteWeight(block_votes, w)
    IN  F64DivGe(vote_weight, total_weight, th)

\* add_vote holds votes.write() from its first line to its return, also
\* across the await of check_consensus.
VotesWriteLocked == \E t \in Tasks : pc[t] = "av_check"

\* Mutant of IsDuplicate: only the latest vote is compared.
IsDuplicateOfLast(block_votes, v) ==
    /\ block_votes # <<>>
    /\ block_votes[Len(block_votes)].voter = v.voter

\* block_votes.iter().any(|v| v.voter == vote.voter)
IsDuplicate(block_votes, v) ==
    \E i \in 1..Len(block_votes) : block_votes[i].voter = v.voter

\* votes.entry(vote.block_hash).or_insert_with(Vec::new)
EntryOrInsert(vs, h) == IF h \in DOMAIN vs THEN vs[h] ELSE <<>>

PushVote(vs, v) ==
    [h \in DOMAIN vs \cup {v.block_hash} |->
        IF h = v.block_hash THEN Append(EntryOrInsert(vs, h), v) ELSE vs[h]]

\* The table after entry(h).or_insert_with(Vec::new) and nothing else.
WithEntry(vs, h) == [k \in DOMAIN vs \cup {h} |-> EntryOrInsert(vs, k)]

Return(t, kind, msg, b) ==
    /\ pc' = [pc EXCEPT ![t] = "idle"]
    /\ ret' = Result(kind, msg, b)

Ok(t, msg) == Return(t, "Ok", msg, NoBlock)
Err(t, kind, msg) == Return(t, kind, msg, NoBlock)

\* verify_vote_signature without the is_empty test.
VerifyAnyVoteSignature(v) == v.signature = v.signature

\* verify_vote_signature
VerifyVoteSignature(v) == v.signature # EmptySig

\* submit_vote up to the await of votes.write(): the Vote is built from the
\* arguments and its signature is verified (no shared data is read).
SubmitVote(t) ==
    /\ pc[t] = "idle"
    /\ \E h \in VoteHashes, voter \in ValidatorIds, sig \in Signatures :
          LET v == [voter |-> voter, block_hash |-> h, signature |-> sig]
          IN  IF ~VerifyVoteSignature(v)
              THEN /\ Err(t, "VotingError", "Invalid vote signature")
                   /\ UNCHANGED vote
              ELSE /\ vote' = [vote EXCEPT ![t] = v]
                   /\ pc' = [pc EXCEPT ![t] = "av_lock"]
                   /\ UNCHANGED ret
    /\ UNCHANGED <<threshold, votes, weights, quorum_seen>>
    /\ UNCHANGED <<blockVars, stateVars>>

\* add_vote up to the await of check_consensus.
AddVote(t) ==
    /\ pc[t] = "av_lock"
    /\ ~VotesWriteLocked
    /\ IF IsDuplicate(EntryOrInsert(votes, vote[t].block_hash), vote[t])
       THEN /\ Err(t, "VotingError", "Duplicate vote detected")
            /\ vote' = [vote EXCEPT ![t] = NoVote]
            /\ votes' = WithEntry(votes, vote[t].block_hash)
       ELSE /\ votes' = PushVote(votes, vote[t])
            /\ pc' = [pc EXCEPT ![t] = "av_check"]
            /\ UNCHANGED <<vote, ret>>
    /\ UNCHANGED <<threshold, weights, quorum_seen>>
    /\ UNCHANGED <<blockVars, stateVars>>

\* check_consensus under weights.read(), then add_vote returns.
CheckConsensusStep(t) ==
    /\ pc[t] = "av_check"
    /\ LET consensus_reached ==
               CheckConsensus(votes[vote[t].block_hash], weights, threshold)
       IN  /\ Ok(t, IF consensus_reached THEN "true" ELSE "false")
           /\ quorum_seen' = IF consensus_reached
                             THEN quorum_seen \cup {vote[t].block_hash}
                             ELSE quorum_seen
    /\ vote' = [vote EXCEPT ![t] = NoVote]
    /\ UNCHANGED <<threshold, votes, weights>>
    /\ UNCHANGED <<blockVars, stateVars>>

\* update_weights(new_weights), new_weights drawn from maps
UpdateWeightsFrom(t, maps) ==
    /\ pc[t] = "idle"
    /\ \E new_weights \in maps : weights' = new_weights
    /\ Ok(t, "()")
    /\ UNCHANGED <<threshold, votes, vote, quorum_seen>>
    /\ UNCHANGED <<blockVars, stateVars>>

UpdateWeights(t) == UpdateWeightsFrom(t, WeightMaps)

\* Mutant of RetainVotes: the retention predicate keeps nothing.
RetainNoVotes(vs) == [h \in {k \in DOMAIN vs : FALSE} |-> vs[h]]

\* votes.retain(|_, _| true)
RetainVotes(vs) == [h \in {k \in DOMAIN vs : TRUE} |-> vs[h]]

ClearOldVotes(t) ==
    /\ pc[t] = "idle"
    /\ ~VotesWriteLocked
    /\ votes' = RetainVotes(votes)
    /\ Ok(t, "()")
    /\ UNCHANGED <<threshold, weights, vote, quorum_seen>>
    /\ UNCHANGED <<blockVars, stateVars>>

(***************************************************************************)
(* ValidatorSet                                                            *)
(***************************************************************************)
MinStake == 1000

NewValidatorSet == [validators |-> <<>>, total_stake |-> 0]

\* ValidatorPerformance::default(); uptime, an f64, is kept as the
\* quotient it was computed from.
DefaultPerformance ==
    [blocks_produced |-> 0, blocks_missed |-> 0,
     uptime |-> [num |-> 0, den |-> 1]]

\* The Validator register_validator builds.
NewValidator(id, stake, identity_commitment) ==
    [id |-> id, stake |-> stake, identity_commitment |-> identity_commitment,
     last_block |-> 0, performance |-> DefaultPerformance]

\* add_validator: total_stake += stake; validators.insert(id, validator)
AddValidator(set, v) ==
    [validators |-> [i \in DOMAIN set.validators \cup {v.id} |->
                        IF i = v.id THEN v ELSE set.validators[i]],
     total_stake |-> set.total_stake + v.stake]

\* The set after register_validator(1, min_stake, Fr::from(1)), as the
\* tests set it up before they create a block.
TestValidatorSet ==
    AddValidator(NewValidatorSet, NewValidator(1, MinStake, <<1>>))

(***************************************************************************)
(* ConsensusState                                                          *)
(***************************************************************************)
NewConsensusState ==
    [epoch |-> 0, height |-> 0, last_block_hash |-> Zero,
     validator_set_root |-> Zero, epoch_start |-> 0]

\* The two assignments apply_block makes before it evaluates
\* block.height % block.epoch_length.
ApplyBlockHead(st, b) ==
    [st EXCEPT !.height = b.height, !.last_block_hash = b.hash]

\* apply_block for block.epoch_length > 0.
ApplyBlock(st, b) ==
    LET head == ApplyBlockHead(st, b)
    IN  IF b.height % b.epoch_length = 0
        THEN [head EXCEPT !.epoch = st.epoch + 1, !.epoch_start = b.timestamp]
        ELSE head

(***************************************************************************)
(* BlockProducer                                                           *)
(***************************************************************************)
\* create_block keeps state.read() from its first line to its return.
StateReadLocked == \E t \in Tasks : pc[t] \in {"cb_time", "cb_write"}

\* E::Fr::from_random_bytes(&hash): None for a digest that is no canonical
\* field element, else the element.
FromRandomBytes(bytes) ==
    IF bytes \in fr_reject THEN [ok |-> FALSE, fr |-> Zero]
    ELSE [ok |-> TRUE, fr |-> bytes]

CalculateBlockHash(st) == FromRandomBytes(HashPreimage(st))

\* The digest section 4.5 of the specification gives for a block:
\* H(height, prev_hash, timestamp, producer, proof blob, epoch_length).
BlockDigest(b) ==
    <<b.height>> \o ToBytes(b.prev_hash) \o <<b.timestamp, b.producer>>
    \o ToBytes(b.identity_proof.proof) \o <<b.epoch_length>>

\* The block create_block assembles.
NewBlock(st, cfg, current_time, producer, proof, hash) ==
    [height |-> st.height + 1, timestamp |-> current_time,
     prev_hash |-> st.last_block_hash, hash |-> hash, producer |-> producer,
     identity_proof |-> IdentityProof(proof),
     epoch_length |-> cfg.epoch_length]

\* start(): last_block_time := current_time()
Start(t) ==
    /\ pc[t] = "idle"
    /\ \E current_time \in Times : last_block_time' = current_time
    /\ Ok(t, "()")
    /\ UNCHANGED <<config, state, fr_reject, validators, blk>>
    /\ UNCHANGED <<votingVars, stateVars>>

\* create_block: state.read() and current_time(); producer, proof and the
\* time read are kept in the task's block.
CreateBlock(t) ==
    /\ pc[t] = "idle"
    /\ \E producer \in Producers, proof \in {GoodProof},
          current_time \in Times :
          blk' = [blk EXCEPT ![t] =
                    [NoBlock EXCEPT !.producer = producer,
                                    !.identity_proof = IdentityProof(proof),
                                    !.timestamp = current_time]]
    /\ pc' = [pc EXCEPT ![t] = "cb_time"]
    /\ UNCHANGED <<config, state, last_block_time, fr_reject, validators, ret>>
    /\ UNCHANGED <<votingVars, stateVars>>

\* verify_block_time(current_time) under last_block_time.read()
VerifyBlockTime(t) ==
    /\ pc[t] = "cb_time"
    /\ IF blk[t].timestamp < last_block_time + config.block_time
       THEN /\ Err(t, "StateTransitionError", "Block time too early")
            /\ blk' = [blk EXCEPT ![t] = NoBlock]
       ELSE /\ pc' = [pc EXCEPT ![t] = "cb_write"]
            /\ UNCHANGED <<blk, ret>>
    /\ UNCHANGED <<config, state, last_block_time, fr_reject, validators>>
    /\ UNCHANGED <<votingVars, stateVars>>

\* Mutant of CreateBlockFinish: the producer applies the block it returns.
CreateBlockFinishApplied(t) ==
    /\ pc[t] = "cb_write"
    /\ LET h == CalculateBlockHash(state)
           b == NewBlock(state, config, blk[t].timestamp, blk[t].producer,
                         blk[t].identity_proof.proof, h.fr)
       IN  IF ~h.ok
           THEN /\ Err(t, "InvalidBlock", "Invalid hash conversion")
                /\ UNCHANGED <<last_block_time, state>>
           ELSE /\ Return(t, "Ok", "block", b)
                /\ last_block_time' = blk[t].timestamp
                /\ state' = ApplyBlock(state, b)
    /\ blk' = [blk EXCEPT ![t] = NoBlock]
    /\ UNCHANGED <<config, fr_reject, validators>>
    /\ UNCHANGED <<votingVars, stateVars>>

\* The rest of create_block: the block is assembled, last_block_time is
\* written under last_block_time.write(), the block is returned.
CreateBlockFinish(t) ==
    /\ pc[t] = "cb_write"
    /\ LET h == CalculateBlockHash(state)
       IN  IF ~h.ok
           THEN /\ Err(t, "InvalidBlock", "Invalid hash conversion")
                /\ UNCHANGED last_block_time
           ELSE /\ Return(t, "Ok", "block",
                          NewBlock(state, config, blk[t].timestamp,
                                   blk[t].producer,
                                   blk[t].identity_proof.proof, h.fr))
                /\ last_block_time' = blk[t].timestamp
    /\ blk' = [blk EXCEPT ![t] = NoBlock]
    /\ UNCHANGED <<config, state, fr_reject, validators>>
    /\ UNCHANGED <<votingVars, stateVars>>

\* Mutant of StructureError: prev_hash is not compared.
StructureErrorHeightOnly(b, st) ==
    IF b.height # st.height + 1 THEN "Invalid block height" ELSE "ok"

\* The checks of verify_block_structure: the message of the InvalidBlock
\* error, or "ok".
StructureError(b, st) ==
    IF b.height # st.height + 1 THEN "Invalid block height"
    ELSE IF b.prev_hash # st.last_block_hash THEN "Invalid previous hash"
    ELSE "ok"

\* Mutant of TimingError: the lower bound itself is turned down.
TimingErrorStrict(b, last_time, cfg) ==
    IF b.timestamp <= last_time + cfg.block_time THEN "Block time too early"
    ELSE IF b.timestamp > last_time + (cfg.block_time * 2)
    THEN "Block time too late"
    ELSE "ok"

\* The checks of verify_block_timing.
TimingError(b, last_time, cfg) ==
    IF b.timestamp < last_time + cfg.block_time THEN "Block time too early"
    ELSE IF b.timestamp > last_time + (cfg.block_time * 2)
    THEN "Block time too late"
    ELSE "ok"

\* Mutant of HashError: block.hash is not compared.
HashErrorNoCompare(b, st) ==
    IF ~CalculateBlockHash(st).ok THEN "Invalid hash conversion" ELSE "ok"

\* The checks of verify_block_hash.
HashError(b, st) ==
    LET calculated_hash == CalculateBlockHash(st)
    IN  IF ~calculated_hash.ok THEN "Invalid hash conversion"
        ELSE IF b.hash # calculated_hash.fr THEN "Invalid block hash"
        ELSE "ok"

\* One check of verify_block by task t: the error is returned, or the task
\* moves on to the await point next.
VerifyStep(t, error, next) ==
    /\ IF error # "ok"
       THEN /\ Err(t, "InvalidBlock", error)
            /\ blk' = [blk EXCEPT ![t] = NoBlock]
       ELSE /\ pc' = [pc EXCEPT ![t] = next]
            /\ UNCHANGED <<blk, ret>>
    /\ UNCHANGED <<config, state, last_block_time, fr_reject, validators>>
    /\ UNCHANGED <<votingVars, stateVars>>

\* verify_block_structure under state.read()
VerifyBlockStructure(t) ==
    /\ pc[t] = "vb_structure"
    /\ VerifyStep(t, StructureError(blk[t], state), "vb_timing")

\* verify_block_timing under last_block_time.read()
VerifyBlockTiming(t) ==
    /\ pc[t] = "vb_timing"
    /\ VerifyStep(t, TimingError(blk[t], last_block_time, config), "vb_hash")

\* verify_block_hash under state.read(); verify_block returns Ok after it.
VerifyBlockHash(t) ==
    /\ pc[t] = "vb_hash"
    /\ VerifyStep(t, HashError(blk[t], state), "pb_apply")

(***************************************************************************)
(* IdentityVerifier                                                        *)
(***************************************************************************)
\* verify_zk_proof: the proof system accepts the blob.
VerifyZkProof(proof) == proof.proof = GoodProof

\* verify_producer_eligibility: no check, Ok(()).
VerifyProducerEligibility(b) == TRUE

\* verify_identity_proof
VerifyIdentityProof(proof) ==
    IF proof.proof = EmptyProof THEN "Empty proof provided"
    ELSE IF ~VerifyZkProof(proof) THEN "Proof verification failed"
    ELSE "ok"

\* verify_block_producer
VerifyBlockProducer(b) ==
    IF VerifyIdentityProof(b.identity_proof) # "ok"
    THEN VerifyIdentityProof(b.identity_proof)
    ELSE IF ~VerifyProducerEligibility(b) THEN "Producer not eligible"
    ELSE "ok"

(***************************************************************************)
(* Consensus::process_block                                                *)
(***************************************************************************)
\* The block a correct remote producer would send now.
HonestBlock(st, cfg, lbt) ==
    NewBlock(st, cfg, lbt + cfg.block_time, 1, GoodProof,
             CalculateBlockHash(st).fr)

\* The blocks handed to process_block: the honest block and the blocks that
\* differ from it in one field.
BlockInputs(st, cfg, lbt) ==
    LET b == HonestBlock(st, cfg, lbt)
    IN  {b}
        \cup {[b EXCEPT !.height = st.height]}
        \cup {[b EXCEPT !.prev_hash = JunkFr]}
        \cup {[b EXCEPT !.timestamp = ts] :
                ts \in {lbt + cfg.block_time - 1, lbt + 2 * cfg.block_time,
                        lbt + 2 * cfg.block_time + 1}}
        \cup {[b EXCEPT !.hash = BlockDigest(b)]}
        \cup {[b EXCEPT !.producer = p] : p \in Producers}
        \cup {[b EXCEPT !.identity_proof = IdentityProof(p)] :
                p \in {EmptyProof, BadProof}}
        \cup {[b EXCEPT !.epoch_length = e] : e \in {0, cfg.epoch_length + 1}}

\* process_block(block) up to the await of state.read() in verify_block:
\* the producer's identity is verified (no shared data is read).  The block
\* comes from the network, or is the block the last create_block returned.
ProcessBlock(t) ==
    /\ pc[t] = "idle"
    /\ state.height < MaxHeight
    /\ \E b \in BlockInputs(state, config, last_block_time)
              \cup {x.block : x \in {r \in {ret} : r.msg = "block"}} :
          IF VerifyBlockProducer(b) # "ok"
          THEN /\ Err(t, "InvalidIdentityProof", VerifyBlockProducer(b))
               /\ UNCHANGED blk
          ELSE /\ blk' = [blk EXCEPT ![t] = b]
               /\ pc' = [pc EXCEPT ![t] = "vb_structure"]
               /\ UNCHANGED ret
    /\ UNCHANGED <<config, state, last_block_time, fr_reject, validators>>
    /\ UNCHANGED <<votingVars, stateVars>>

\* state.write(); state.apply_block(block).  With epoch_length = 0 the
\* remainder panics after height and last_block_hash were assigned.
ApplyBlockStep(t) ==
    /\ pc[t] = "pb_apply"
    /\ ~StateReadLocked
    /\ IF blk[t].epoch_length = 0
       THEN /\ state' = ApplyBlockHead(state, blk[t])
            /\ Return(t, "Panic", "attempt to calculate the remainder with a divisor of zero", NoBlock)
       ELSE /\ state' = ApplyBlock(state, blk[t])
            /\ Ok(t, "()")
    /\ blk' = [blk EXCEPT ![t] = NoBlock]
    /\ UNCHANGED <<config, last_block_time, fr_reject, validators>>
    /\ UNCHANGED <<votingVars, stateVars>>

(***************************************************************************)
(* State layer (state/account.rs, state/transaction.rs, state/types.rs,    *)
(* state/transition.rs).  u64 and i64 are scaled down to WordBits bits.    *)
(* An AccountId is its byte string.  A public key is the private key it    *)
(* belongs to (the generator of G1 is the key of private key 1).  Account  *)
(* storage stays empty (execute_contract_call returns no updates) and is   *)
(* left out, as are State.block_height and State.timestamp, which no       *)
(* transition reads or writes.                                             *)
(***************************************************************************)
WordBits == 4
MaxNonce == 2
MaxBlockLen == 2

Word == 2 ^ WordBits
HalfWord == 2 ^ (WordBits - 1)

\* x as i64, x as u64, and the i64 range.
AsI64(x) == IF x >= HalfWord THEN x - Word ELSE x
AsU64(x) == x % Word
InI64(x) == -HalfWord <= x /\ x < HalfWord

\* The private key of E::G1Projective::prime_subgroup_generator().
GeneratorKey == 1
NoFr == [some |-> FALSE, fr |-> Zero]
SomeFr(fr) == [some |-> TRUE, fr |-> fr]

\* Account::new
NewAccount(id, public_key) ==
    [id |-> id, nonce |-> 0, balance |-> 0, public_key |-> public_key,
     code_hash |-> NoFr, storage |-> <<>>]

\* Account::new_contract
NewContract(id, code_hash, creator_key) ==
    [id |-> id, nonce |-> 0, balance |-> 0, public_key |-> creator_key,
     code_hash |-> SomeFr(code_hash), storage |-> <<>>]

\* Account::is_contract
IsContract(account) == account.code_hash.some

\* Account::set_storage: self.storage.insert(key, value).  A storage key
\* and a storage value are field elements, kept as numbers.
SetStorage(account, key, value) ==
    [account EXCEPT !.storage =
        [k \in DOMAIN account.storage \cup {key} |->
            IF k = key THEN value ELSE account.storage[k]]]

\* What an account operation gives: the account, an error or a panic.
AccountOk(account) == [kind |-> "Ok", msg |-> "", account |-> account]
AccountErr(kind, msg, account) == [kind |-> kind, msg |-> msg, account |-> account]

\* Account::increment_nonce: self.nonce += 1
IncrementNonce(account) ==
    IF account.nonce + 1 >= Word
    THEN IF overflow_checks
         THEN AccountErr("Panic", "attempt to add with overflow", account)
         ELSE AccountOk([account EXCEPT !.nonce = 0])
    ELSE AccountOk([account EXCEPT !.nonce = account.nonce + 1])

\* -x on i64: i64::MIN has no negation.
NegOverflows(x) == x = -HalfWord
NegI64(x) == IF NegOverflows(x) THEN x ELSE -x

\* Account::update_balance(amount: i64)
UpdateBalance(account, amount) ==
    LET sum == AsI64(account.balance) + amount
    IN  IF amount < 0 /\ NegOverflows(amount) /\ overflow_checks
        THEN AccountErr("Panic", "attempt to negate with overflow", account)
        ELSE IF amount < 0 /\ account.balance < AsU64(NegI64(amount))
        THEN AccountErr("AccountError", "Insufficient balance", account)
        ELSE IF ~InI64(sum) /\ overflow_checks
        THEN AccountErr("Panic", "attempt to add with overflow", account)
        ELSE AccountOk([account EXCEPT !.balance = AsU64(sum)])

RECURSIVE StorageBytes(_, _)
\* The entries of the storage map, each key followed by its value.
StorageBytes(map, keys) ==
    IF keys = {} THEN <<>>
    ELSE LET key == CHOOSE k \in keys : \A other \in keys : k <= other
         IN  <<key, map[key]>> \o StorageBytes(map, keys \ {key})

\* Account::serialize
AccountSerialize(account) ==
    ToBytes(account.id) \o <<account.nonce, account.balance, account.public_key>>
    \o ToBytes(Zero)
    \o (IF account.code_hash.some THEN <<1>> \o ToBytes(account.code_hash.fr)
        ELSE <<0>>)
    \o <<Cardinality(DOMAIN account.storage)>>
    \o StorageBytes(account.storage, DOMAIN account.storage)

\* State::new
NewState == [accounts |-> <<>>, root |-> Zero, version |-> 0]

\* State::get_account
HasAccount(st, id) == id \in DOMAIN st.accounts

\* The commitment of a MerkleTree to the leaves it was given: the mapping
\* from key to value, whatever the order of the updates was.
MerkleRoot(leaves) == leaves

\* HashMap::extend / insert: the entries of more replace those of map.
Extend(map, more) ==
    [id \in DOMAIN map \cup DOMAIN more |->
        IF id \in DOMAIN more THEN more[id] ELSE map[id]]

\* calculate_root without its second loop: the accounts that are new to
\* the State are left out of the tree.
CalculateRootOfOld(st, modified_accounts) ==
    MerkleRoot([id \in DOMAIN st.accounts |->
        IF id \in DOMAIN modified_accounts
        THEN AccountSerialize(modified_accounts[id])
        ELSE AccountSerialize(st.accounts[id])])

\* State::calculate_root
CalculateRoot(st, modified_accounts) ==
    MerkleRoot([id \in DOMAIN st.accounts \cup DOMAIN modified_accounts |->
        IF id \in DOMAIN st.accounts
        THEN IF id \in DOMAIN modified_accounts
             THEN AccountSerialize(modified_accounts[id])
             ELSE AccountSerialize(st.accounts[id])
        ELSE AccountSerialize(modified_accounts[id])])

\* State::apply_modifications
ApplyModifications(st, modified_accounts) ==
    [accounts |-> Extend(st.accounts, modified_accounts),
     root |-> CalculateRoot(st, modified_accounts),
     version |-> st.version + 1]

(***************************************************************************)
(* Transaction (state/transaction.rs)                                      *)
(***************************************************************************)
TransactionTypes ==
    <<"Transfer", "Deploy", "Call", "CreateAccount", "UpdateAccount">>

\* tx_type as u8
TypeCode(tx_type) ==
    CHOOSE i \in 1..Len(TransactionTypes) : TransactionTypes[i] = tx_type

NoId == [some |-> FALSE, id |-> <<>>]
SomeId(id) == [some |-> TRUE, id |-> id]
NoBytes == [some |-> FALSE, bytes |-> <<>>]
SomeBytes(bytes) == [some |-> TRUE, bytes |-> bytes]
NoSignature == [some |-> FALSE, key |-> 0, message |-> <<>>]

\* Transaction::new
NewTransaction(tx_type, from, to, value, nonce, data) ==
    [tx_type |-> tx_type, nonce |-> nonce, from |-> from, to |-> to,
     value |-> value, gas_price |-> 0, gas_limit |-> 0, data |-> data,
     signature |-> NoSignature, computation_proof |-> NoBytes]

\* Transaction::encode_for_signing
EncodeForSigning(tx) ==
    <<TypeCode(tx.tx_type) - 1, tx.nonce>> \o ToBytes(tx.from)
    \o (IF tx.to.some THEN <<1>> \o ToBytes(tx.to.id) ELSE <<0>>)
    \o <<tx.value, tx.gas_price, tx.gas_limit>> \o ToBytes(tx.data)

\* SignatureScheme::sign: the signature of private_key over message.
SchemeSign(message, private_key) ==
    [some |-> TRUE, key |-> private_key, message |-> message]

\* SignatureScheme::verify: s G = R - h P holds for the signature the owner
\* of public_key made over message and for no other.
SchemeVerify(message, signature, public_key) ==
    signature.key = public_key /\ signature.message = message

\* Transaction::sign
Sign(tx, private_key) ==
    [tx EXCEPT !.signature = SchemeSign(EncodeForSigning(tx), private_key)]

\* Transaction::add_computation_proof
AddComputationProof(tx, proof) ==
    [tx EXCEPT !.computation_proof = SomeBytes(proof)]

\* Transaction::verify_signature: "ok", "false" or the error.
TxVerifySignature(tx, public_key) ==
    IF ~tx.signature.some THEN "Missing signature"
    ELSE IF SchemeVerify(EncodeForSigning(tx), tx.signature, public_key)
    THEN "ok" ELSE "false"

\* Transaction::verify_computation
TxVerifyComputation(tx) ==
    IF ~tx.computation_proof.some THEN "Missing computation proof"
    ELSE IF tx.computation_proof.bytes # <<>> THEN "ok" ELSE "false"

\* Transaction::hash
TxHash(tx) == FromRandomBytes(EncodeForSigning(tx))

(***************************************************************************)
(* StateTransition (state/transition.rs)                                   *)
(***************************************************************************)
\* What a transition gives: Ok with the TransitionResult, an error, or a
\* panic.  Logs stay empty and are left out.
TransitionOk(modified_accounts, new_root, computation_used) ==
    [kind |-> "Ok", msg |-> "", modified_accounts |-> modified_accounts,
     new_root |-> new_root, computation_used |-> computation_used]
TransitionErr(kind, msg) ==
    [kind |-> kind, msg |-> msg, modified_accounts |-> <<>>,
     new_root |-> Zero, computation_used |-> 0]
ValidationError(msg) == TransitionErr("ValidationError", msg)

\* validate_transaction with the nonce compared by >= instead of ==.
ValidateTransactionAtLeast(st, tx) ==
    IF ~HasAccount(st, tx.from) THEN "Sender account not found"
    ELSE LET sender == st.accounts[tx.from]
             signed == TxVerifySignature(tx, sender.public_key)
             proved == TxVerifyComputation(tx)
         IN  IF tx.nonce < sender.nonce THEN "Invalid nonce"
             ELSE IF signed = "false" THEN "Invalid signature"
             ELSE IF signed # "ok" THEN signed
             ELSE IF proved = "false" THEN "Invalid computation proof"
             ELSE IF proved # "ok" THEN proved
             ELSE IF tx.value > sender.balance THEN "Insufficient balance"
             ELSE "ok"

\* validate_transaction: "ok" or the message of the ValidationError.
ValidateTransaction(st, tx) ==
    IF ~HasAccount(st, tx.from) THEN "Sender account not found"
    ELSE LET sender == st.accounts[tx.from]
             signed == TxVerifySignature(tx, sender.public_key)
             proved == TxVerifyComputation(tx)
         IN  IF tx.nonce # sender.nonce THEN "Invalid nonce"
             ELSE IF signed = "false" THEN "Invalid signature"
             ELSE IF signed # "ok" THEN signed
             ELSE IF proved = "false" THEN "Invalid computation proof"
             ELSE IF proved # "ok" THEN proved
             ELSE IF tx.value > sender.balance THEN "Insufficient balance"
             ELSE "ok"

\* calculate_computation_used
CalculateComputationUsed(tx) ==
    1000 + Len(tx.data) * 10
    + (CASE tx.tx_type = "Transfer" -> 1000
         [] tx.tx_type = "Deploy" -> 50000
         [] tx.tx_type = "Call" -> 5000
         [] tx.tx_type = "CreateAccount" -> 2000
         [] tx.tx_type = "UpdateAccount" -> 3000)

\* generate_contract_id: the digest of from and nonce.
GenerateContractId(tx) == tx.from \o <<tx.nonce>>

\* compute_code_hash
ComputeCodeHash(code) == FromRandomBytes(code)

\* account.update_balance(-(value as i64))
Debit(account, value) ==
    IF NegOverflows(AsI64(value)) /\ overflow_checks
    THEN AccountErr("Panic", "attempt to negate with overflow", account)
    ELSE UpdateBalance(account, NegI64(AsI64(value)))

\* account.update_balance(value as i64)
Credit(account, value) == UpdateBalance(account, AsI64(value))

\* modified_accounts.insert(first.id, first); insert(second.id, second)
InsertBoth(first, second) ==
    Extend(first.id :> first, second.id :> second)

\* The tail all process_* functions share: the sender, debited or not, gets
\* its nonce incremented and is stored before the other account.
Finish(tx, debited, other) ==
    IF debited.kind # "Ok" THEN TransitionErr(debited.kind, debited.msg)
    ELSE IF other.kind # "Ok" THEN TransitionErr(other.kind, other.msg)
    ELSE LET sender == IncrementNonce(debited.account)
         IN  IF sender.kind # "Ok" THEN TransitionErr(sender.kind, sender.msg)
             ELSE TransitionOk(InsertBoth(sender.account, other.account),
                               Zero, CalculateComputationUsed(tx))

\* process_transfer
ProcessTransfer(st, tx) ==
    IF ~HasAccount(st, tx.from) THEN ValidationError("Sender account not found")
    ELSE IF ~tx.to.some THEN ValidationError("Receiver not specified")
    ELSE IF ~HasAccount(st, tx.to.id)
    THEN ValidationError("Receiver account not found")
    ELSE Finish(tx, Debit(st.accounts[tx.from], tx.value),
                Credit(st.accounts[tx.to.id], tx.value))

\* process_deploy
ProcessDeploy(st, tx) ==
    IF ~HasAccount(st, tx.from) THEN ValidationError("Sender account not found")
    ELSE LET sender == st.accounts[tx.from]
             code_hash == ComputeCodeHash(tx.data)
         IN  IF ~code_hash.ok THEN ValidationError("Invalid code hash")
             ELSE Finish(tx, Debit(sender, tx.value),
                         AccountOk(NewContract(GenerateContractId(tx),
                                               code_hash.fr,
                                               sender.public_key)))

\* process_call
ProcessCall(st, tx) ==
    IF ~HasAccount(st, tx.from) THEN ValidationError("Sender account not found")
    ELSE IF ~tx.to.some THEN ValidationError("Contract not specified")
    ELSE IF ~HasAccount(st, tx.to.id) THEN ValidationError("Contract not found")
    ELSE IF ~IsContract(st.accounts[tx.to.id])
    THEN ValidationError("Target is not a contract")
    ELSE Finish(tx, Debit(st.accounts[tx.from], tx.value),
                AccountOk(st.accounts[tx.to.id]))

\* process_create_account
ProcessCreateAccount(st, tx) ==
    IF ~tx.to.some THEN ValidationError("Account ID not specified")
    ELSE IF HasAccount(st, tx.to.id) THEN ValidationError("Account already exists")
    ELSE IF ~HasAccount(st, tx.from)
    THEN ValidationError("Sender account not found")
    ELSE Finish(tx, AccountOk(st.accounts[tx.from]),
                AccountOk(NewAccount(tx.to.id, GeneratorKey)))

\* process_update_account
ProcessUpdateAccount(st, tx) ==
    IF ~tx.to.some THEN ValidationError("Account ID not specified")
    ELSE IF ~HasAccount(st, tx.to.id) THEN ValidationError("Account not found")
    ELSE IF ~HasAccount(st, tx.from)
    THEN ValidationError("Sender account not found")
    ELSE IF tx.from # tx.to.id THEN ValidationError("Not account owner")
    ELSE Finish(tx, AccountOk(st.accounts[tx.from]),
                AccountOk(st.accounts[tx.to.id]))

\* The match on tx_type in apply_transaction.
Process(st, tx) ==
    CASE tx.tx_type = "Transfer" -> ProcessTransfer(st, tx)
      [] tx.tx_type = "Deploy" -> ProcessDeploy(st, tx)
      [] tx.tx_type = "Call" -> ProcessCall(st, tx)
      [] tx.tx_type = "CreateAccount" -> ProcessCreateAccount(st, tx)
      [] tx.tx_type = "UpdateAccount" -> ProcessUpdateAccount(st, tx)

\* apply_transaction
ApplyTransaction(st, tx) ==
    LET valid == ValidateTransaction(st, tx)
        processed == Process(st, tx)
    IN  IF valid # "ok" THEN ValidationError(valid)
        ELSE IF processed.kind # "Ok" THEN processed
        ELSE IF ~TxHash(tx).ok THEN ValidationError("Failed to generate hash")
        ELSE [processed EXCEPT
                !.new_root = CalculateRoot(st, processed.modified_accounts)]

\* nonce_map.entry(from).or_insert(0)
EntryOrZero(nonce_map, from) ==
    IF from \in DOMAIN nonce_map THEN nonce_map[from] ELSE 0

RECURSIVE ValidateBlockFrom(_, _, _, _)
\* The loop of validate_block from transaction i on: "ok" or the message.
ValidateBlockFrom(st, transactions, i, nonce_map) ==
    IF i > Len(transactions) THEN "ok"
    ELSE LET tx == transactions[i]
             valid == ValidateTransaction(st, tx)
             nonce == EntryOrZero(nonce_map, tx.from)
         IN  IF valid # "ok" THEN valid
             ELSE IF tx.nonce # nonce THEN "Invalid nonce sequence"
             ELSE ValidateBlockFrom(st, transactions, i + 1,
                      Extend(nonce_map, tx.from :> nonce + 1))

\* validate_block
ValidateBlock(st, transactions) ==
    ValidateBlockFrom(st, transactions, 1, <<>>)

RECURSIVE ApplyEach(_, _, _, _)
\* The loop of apply_block from transaction i on: every transaction is
\* applied to the State the block was given.
ApplyEach(st, transactions, i, merged) ==
    IF i > Len(transactions)
    THEN [merged EXCEPT !.new_root = CalculateRoot(st, merged.modified_accounts)]
    ELSE LET one == ApplyTransaction(st, transactions[i])
         IN  IF one.kind # "Ok" THEN one
             ELSE ApplyEach(st, transactions, i + 1,
                      TransitionOk(Extend(merged.modified_accounts,
                                          one.modified_accounts),
                                   Zero,
                                   merged.computation_used
                                       + one.computation_used))

\* apply_block of the StateTransition
TransitionApplyBlock(st, transactions) ==
    LET valid == ValidateBlock(st, transactions)
    IN  IF valid # "ok" THEN ValidationError(valid)
        ELSE ApplyEach(st, transactions, 1, TransitionOk(<<>>, Zero, 0))

\* The result of no call, and the StateUpdate of no call (block_height and
\* timestamp left out as in the State).
NoTransition ==
    [op |-> "none", transactions |-> <<>>, base_version |-> 0,
     out |-> TransitionErr("None", "")]
NoUpdate ==
    [modified_accounts |-> <<>>, previous_root |-> Zero, new_root |-> Zero]

\* The single objects before anything was done with them.
\* A Node of the Merkle tree without its children: the children of the
\* node at path p are the nodes at p with one more bit.
EmptyNode == [hash |-> Zero, value |-> [some |-> FALSE, bytes |-> <<>>]]

\* MerkleTree::new: the root node only.
NewTree == [p \in {<<>>} |-> EmptyNode]

NoMerkleCall ==
    [op |-> "none", key |-> 0, value |-> <<>>, proof |-> <<>>, calls |-> 0]

\* The six reader/writer locks of the consensus and state components, in
\* the order section 5 of the specification prescribes for acquisition.
LockOrder ==
    <<"ConsensusState", "ValidatorSet", "State", "votes", "weights",
      "last_block_time">>

Locks == {LockOrder[i] : i \in DOMAIN LockOrder}

\* No task holds or awaits a lock.
IdleLocks ==
    /\ held = [t \in Tasks |-> <<>>]
    /\ queue = [l \in Locks |-> <<>>]
    /\ prog = [t \in Tasks |-> <<>>]

\* MerkleTree::new(0) before any call.
IdleMerkle ==
    /\ tree = NewTree
    /\ tree_depth = 0
    /\ merkle_call = NoMerkleCall

\* A selector over an empty ValidatorSet that has drawn nothing.
IdleSelector ==
    /\ candidates = <<>>
    /\ iteration_order = <<>>
    /\ rng = [stream |-> <<>>, position |-> 0]
    /\ selections = <<>>

\* The last signature (what was signed, with which key, and the result)
\* and the message and public key verify was last called with.
NoSigCall ==
    [op |-> "none", kind |-> "None", private_key |-> 0, message |-> <<>>,
     r |-> 0, s |-> 0, public_key |-> 0, against |-> <<>>]

\* A SignatureScheme that has signed nothing.
IdleSigner ==
    /\ digests = <<>>
    /\ sig_call = NoSigCall
    /\ first_signed = <<>>

\* What a constructor of the crypto suite returned: the instance it built
\* (usable) with the fields the constructors set, or the error.
CryptoResult(kind, usable, security_level, variant, key_size, shift) ==
    [kind |-> kind, usable |-> usable, security_level |-> security_level,
     variant |-> variant, key_size |-> key_size, shift |-> shift]

NoInstance(kind) == CryptoResult(kind, FALSE, 0, "None", 0, 0)

NoCryptoCall ==
    [op |-> "none", security_level |-> 0, out |-> NoInstance("None")]

NoManagerCall == [op |-> "none", id |-> 0, stake |-> 0]

\* A StateProof, as get_account_proof builds it.
StateProof(account_id, account, merkle_proof, root) ==
    [account_id |-> account_id, account |-> account,
     merkle_proof |-> merkle_proof, root |-> root]

NoAccount == [some |-> FALSE, account |-> NewAccount(<<>>, GeneratorKey)]
SomeAccount(account) == [some |-> TRUE, account |-> account]

NoProofCall ==
    [op |-> "none", proof |-> StateProof(<<>>, NoAccount, <<>>, Zero),
     kind |-> "None", valid |-> FALSE]

\* MemoryStorage::new
NewMemoryStorage == [accounts |-> <<>>, root |-> Zero]

\* The database PersistentStorage::new has opened, with no key in it.
NewDb == <<>>

StorageKinds == {"MemoryStorage", "PersistentStorage"}

NoStorageCall == [op |-> "none", on |-> "None", kind |-> "None"]

\* No proof was verified; both storages are new.
IdleStore ==
    /\ proof_call = NoProofCall
    /\ memory = NewMemoryStorage
    /\ db = NewDb
    /\ storage_call = NoStorageCall
    /\ last_saved = [on \in StorageKinds |-> <<>>]

\* Nothing of the crypto suite was constructed, no call was made.
IdleKit ==
    /\ crypto_call = NoCryptoCall
    /\ manager_call = NoManagerCall
    /\ applied_time = 0
    /\ IdleStore

IdleLib ==
    /\ the_account = NewAccount(<<>>, GeneratorKey)
    /\ deposited = 0
    /\ calls = 0
    /\ cancels = 0
    /\ IdleLocks
    /\ IdleMerkle
    /\ IdleSelector
    /\ IdleSigner
    /\ IdleKit

\* The state layer before anything was done with it.
IdleState ==
    /\ ledger = NewState
    /\ result = NoTransition
    /\ overflow_checks = FALSE
    /\ storage = NewState
    /\ update = [t \in Tasks |-> NoUpdate]
    /\ new_state = [t \in Tasks |-> NewState]
    /\ accepted = <<>>
    /\ IdleLib

(***************************************************************************)
(* Specifications                                                          *)
(***************************************************************************)
InitVoting ==
    /\ threshold \in Thresholds
    /\ votes = <<>>
    /\ weights = <<>>
    /\ pc = [t \in Tasks |-> "idle"]
    /\ vote = [t \in Tasks |-> NoVote]
    /\ ret = NoResult
    /\ config = TestConfig
    /\ state = NewConsensusState
    /\ last_block_time = 0
    /\ fr_reject = {}
    /\ validators = NewValidatorSet
    /\ quorum_seen = {}
    /\ blk = [t \in Tasks |-> NoBlock]
    /\ IdleState

NextVoting ==
    \E t \in Tasks :
        \/ SubmitVote(t)
        \/ AddVote(t)
        \/ CheckConsensusStep(t)
        \/ UpdateWeights(t)
        \/ ClearOldVotes(t)

SpecVoting == InitVoting /\ [][NextVoting]_vars

\* The digests from_random_bytes may turn down: none, or the one of the
\* first block.
RejectSets == {{}, {HashPreimage(NewConsensusState)}}

InitBlock ==
    /\ threshold = [num |-> 67, den |-> 100]
    /\ votes = <<>>
    /\ weights = <<>>
    /\ pc = [t \in Tasks |-> "idle"]
    /\ vote = [t \in Tasks |-> NoVote]
    /\ ret = NoResult
    /\ config = TestConfig
    /\ state = NewConsensusState
    /\ last_block_time = 0
    /\ fr_reject \in RejectSets
    /\ validators = TestValidatorSet
    /\ quorum_seen = {}
    /\ blk = [t \in Tasks |-> NoBlock]
    /\ IdleState

NextBlock ==
    \E t \in Tasks :
        \/ Start(t)
        \/ CreateBlock(t)
        \/ VerifyBlockTime(t)
        \/ CreateBlockFinish(t)
        \/ ProcessBlock(t)
        \/ VerifyBlockStructure(t)
        \/ VerifyBlockTiming(t)
        \/ VerifyBlockHash(t)
        \/ ApplyBlockStep(t)

SpecBlock == InitBlock /\ [][NextBlock]_vars

\* One task drives the node through the cycle of test_consensus_full_cycle:
\* blocks are created and processed and votes are submitted for the hash of
\* the first block, under weights that follow the validators' stake.
NodeTask == CHOOSE t \in Tasks : \A u \in Tasks : t <= u

NodeWeightMaps ==
    {[i \in DOMAIN TestValidatorSet.validators |-> 1],
     [i \in ValidatorIds |-> 1]}

InitNode ==
    /\ InitBlock
    /\ fr_reject = {}

NextNode ==
    \/ Start(NodeTask)
    \/ CreateBlock(NodeTask)
    \/ VerifyBlockTime(NodeTask)
    \/ CreateBlockFinish(NodeTask)
    \/ ProcessBlock(NodeTask)
    \/ VerifyBlockStructure(NodeTask)
    \/ VerifyBlockTiming(NodeTask)
    \/ VerifyBlockHash(NodeTask)
    \/ ApplyBlockStep(NodeTask)
    \/ SubmitVote(NodeTask)
    \/ AddVote(NodeTask)
    \/ CheckConsensusStep(NodeTask)
    \/ UpdateWeightsFrom(NodeTask, NodeWeightMaps)
    \/ ClearOldVotes(NodeTask)

SpecNode == InitNode /\ [][NextNode]_vars

(***************************************************************************)
(* Properties of the voting manager (checked under SpecVoting)             *)
(***************************************************************************)
\* The voters recorded for block hash h.
VotersOf(h) ==
    IF h \in DOMAIN votes THEN {votes[h][i].voter : i \in 1..Len(votes[h])}
    ELSE {}

\* The number of votes of voter recorded for h.
VoteCount(vs, h, voter) ==
    IF h \in DOMAIN vs
    THEN Cardinality({i \in 1..Len(vs[h]) : vs[h][i].voter = voter})
    ELSE 0

\* Task t leaves the await point p in this step.
Leaves(t, p) == pc[t] = p /\ pc'[t] # p

NoDuplicateVoters ==
    \A h \in DOMAIN votes : \A voter \in ValidatorIds :
        VoteCount(votes, h, voter) <= 1

\* C1: votes[block_hash] never holds two votes of one voter, and a
\* submission is rejected as a duplicate exactly when the voter already has
\* a vote for the hash; otherwise it is recorded once.
C1_OneVotePerVoter ==
    /\ []NoDuplicateVoters
    /\ [][\A t \in Tasks : Leaves(t, "av_lock") =>
            LET h == vote[t].block_hash
                voter == vote[t].voter
            IN  IF voter \in VotersOf(h)
                THEN /\ pc'[t] = "idle"
                     /\ ret'.kind = "VotingError"
                     /\ ret'.msg = "Duplicate vote detected"
                     /\ votes' = votes
                ELSE /\ pc'[t] = "av_check"
                     /\ VoteCount(votes', h, voter) = 1]_vars

\* A second submission of a voter was rejected and the first is recorded.
C1_Witness ==
    /\ ret.msg = "Duplicate vote detected"
    /\ \E h \in DOMAIN votes : Len(votes[h]) >= 1

\* S of the claim: the weights of the distinct voters recorded for h.
RecordedWeight(h) ==
    SumValues([v \in VotersOf(h) \cap DOMAIN weights |-> weights[v]])

\* C2: an accepted submit_vote returns true iff T > 0 and S / T >= threshold,
\* S the weight of the distinct voters recorded for the hash and T the sum
\* of all weights; with T = 0 it returns false.
C2_ReturnsQuorum ==
    [][\A t \in Tasks : Leaves(t, "av_check") =>
         LET S == RecordedWeight(vote[t].block_hash)
             T == SumValues(weights)
         IN  /\ ret'.kind = "Ok"
             /\ ret'.msg \in {"true", "false"}
             /\ ret'.msg = "true" <=>
                  (T > 0 /\ S * threshold.den >= threshold.num * T)]_vars

\* A submit_vote returned true at exactly the threshold.
C2_Witness ==
    /\ ret.kind = "Ok" /\ ret.msg = "true"
    /\ \E h \in DOMAIN votes :
          /\ SumValues(weights) > 0
          /\ RecordedWeight(h) * threshold.den = threshold.num * SumValues(weights)

QuorumHolds(h) ==
    /\ h \in DOMAIN votes
    /\ CheckConsensus(votes[h], weights, threshold)

\* C3 as claimed: once a submit_vote for a hash has returned true, every
\* later accepted submit_vote for that hash returns true.
C3_OnceTrueAlwaysTrue ==
    [][\A t \in Tasks :
         (Leaves(t, "av_check") /\ vote[t].block_hash \in quorum_seen)
            => ret'.msg = "true"]_vars

\* C3 amended: while update_weights does not change the weights, a quorum
\* that holds for a hash keeps holding over every step, and every accepted
\* submit_vote for that hash returns true.
C3_QuorumMonotoneUnderFixedWeights ==
    [][\A h \in VoteHashes : (QuorumHolds(h) /\ weights' = weights) =>
         /\ QuorumHolds(h)'
         /\ \A t \in Tasks :
              (Leaves(t, "av_check") /\ vote[t].block_hash = h)
                 => ret'.msg = "true"]_vars

\* After a quorum was seen for a hash a further voter was accepted and
\* submit_vote returned true again.
C3_Witness ==
    /\ ret.kind = "Ok" /\ ret.msg = "true"
    /\ \E h \in quorum_seen : Len(votes[h]) >= 2 /\ QuorumHolds(h)

(***************************************************************************)
(* Properties of block processing (checked under SpecBlock, C4 under       *)
(* SpecNode)                                                               *)
(***************************************************************************)
\* Task t's process_block has passed verify_block_producer.
PastIdentity(t) == pc[t] \in {"vb_structure", "vb_timing", "vb_hash", "pb_apply"}

\* Task t applies its block in this step.
Applies(t) == pc[t] = "pb_apply" /\ pc'[t] = "idle"

\* C4 as claimed: a block is applied only after a submit_vote for its hash
\* has returned true.
C4_AppliedAfterQuorum ==
    [][\A t \in Tasks : Applies(t) => blk[t].hash \in quorum_seen]_vars

\* C4 amended: ConsensusState changes only when process_block applies a
\* block, height and last_block_hash are set from that block, and the block
\* has before passed the identity, structure, timing and hash checks of
\* process_block, each against the state read at its time; votes are not
\* consulted.
C4_AppliedAfterChecks ==
    [][/\ state' # state => \E t \in Tasks : Applies(t)
       /\ \A t \in Tasks :
            /\ (pc[t] = "idle" /\ PastIdentity(t)') =>
                  /\ pc'[t] = "vb_structure"
                  /\ blk'[t].identity_proof.proof = GoodProof
            /\ (pc[t] # "vb_timing" /\ pc'[t] = "vb_timing") =>
                  /\ pc[t] = "vb_structure"
                  /\ blk[t].height = state.height + 1
                  /\ blk[t].prev_hash = state.last_block_hash
            /\ (pc[t] # "vb_hash" /\ pc'[t] = "vb_hash") =>
                  /\ pc[t] = "vb_timing"
                  /\ blk[t].timestamp >= last_block_time + config.block_time
                  /\ blk[t].timestamp <= last_block_time + 2 * config.block_time
            /\ (pc[t] # "pb_apply" /\ pc'[t] = "pb_apply") =>
                  /\ pc[t] = "vb_hash"
                  /\ blk[t].hash = HashPreimage(state)
                  /\ HashPreimage(state) \notin fr_reject
            /\ Applies(t) =>
                  /\ state'.height = blk[t].height
                  /\ state'.last_block_hash = blk[t].hash]_vars

\* A block was applied although no submit_vote has returned true, and votes
\* for its hash came in afterwards.
C4_Witness ==
    /\ state.height >= 1
    /\ quorum_seen = {}
    /\ state.last_block_hash \in DOMAIN votes

\* C5: every applied block extends the state it is applied to, and the
\* height grows by exactly one per applied block (blocks whose apply_block
\* panics are left aside).
C5_AppliedOnTip ==
    [][\A t \in Tasks :
         (Applies(t) /\ ret'.kind # "Panic") =>
         /\ blk[t].height = state.height + 1
         /\ blk[t].prev_hash = state.last_block_hash
         /\ state'.height = state.height + 1]_vars

StructureMsgs == {"Invalid block height", "Invalid previous hash"}

\* C6: verify_block returns InvalidBlock for a block whose height is not
\* state.height + 1 or whose prev_hash is not state.last_block_hash, and no
\* block for which both hold is rejected for its height or prev_hash.
C6_StructureChecked ==
    [][\A t \in Tasks :
         /\ Leaves(t, "vb_structure") =>
              IF \/ blk[t].height # state.height + 1
                 \/ blk[t].prev_hash # state.last_block_hash
              THEN /\ pc'[t] = "idle"
                   /\ ret'.kind = "InvalidBlock"
                   /\ ret'.msg \in StructureMsgs
              ELSE /\ pc'[t] = "vb_timing"
                   /\ ret' = ret
         /\ (pc[t] \notin {"idle", "vb_structure"} /\ pc'[t] = "idle")
              => ret'.msg \notin StructureMsgs]_vars

\* A block with the right height and a wrong prev_hash was rejected.
C6_Witness ==
    ret.kind = "InvalidBlock" /\ ret.msg = "Invalid previous hash"

C8_HashIsDigest ==
    \A t \in Tasks : pc[t] = "pb_apply" => blk[t].hash = BlockDigest(blk[t])

\* The block process_block would accept in the current state.
Acceptable(b) ==
    /\ VerifyBlockProducer(b) = "ok"
    /\ StructureError(b, state) = "ok"
    /\ TimingError(b, last_block_time, config) = "ok"
    /\ HashError(b, state) = "ok"

\* C9: the block a successful create_block has just returned is accepted
\* by verify_block and process_block.
C9_CreatedBlockAccepted ==
    ret.msg = "block" => Acceptable(ret.block)

\* C10: a block that has passed verify_block_producer names a member of the
\* validator set as its producer, and so does every applied block.
C10_ProducerIsValidator ==
    \A t \in Tasks :
        PastIdentity(t) => blk[t].producer \in DOMAIN validators.validators

(***************************************************************************)
(* ValidatorManager (consensus/validator.rs) over the ValidatorSet.  Every *)
(* operation holds validators.write() from its first access to its return,*)
(* so each is one action.                                                  *)
(***************************************************************************)
MaxRegistrations == 4

\* max_validators of the manager, scaled down so that the limit is met.
ManagerMaxValidators == MaxValidators - 1

\* The stakes callers offer: below, at and above min_stake.
Stakes == {MinStake - 1, MinStake, MinStake + 1}

\* The largest total_stake from which a registration is still explored.
MaxTotalStake == MaxRegistrations * (MinStake + 1)

\* u64 arithmetic, the width scaled down.
StakeModulus == 2 ^ 20

\* remove_validator of the ValidatorSet, the subtraction wrapping.
RemoveValidatorFrom(set, id) ==
    IF id \in DOMAIN set.validators
    THEN [validators |-> [i \in DOMAIN set.validators \ {id} |->
                             set.validators[i]],
          total_stake |->
              (set.total_stake - set.validators[id].stake) % StakeModulus]
    ELSE set

\* validators.remove(id) has run and total_stake -= stake has panicked.
RemoveValidatorPanicked(set, id) ==
    [set EXCEPT !.validators =
        [i \in DOMAIN set.validators \ {id} |-> set.validators[i]]]

\* The value one call of the manager returns; the manager's calls have no
\* await besides the lock, the tasks' positions stay as they are.
ManagerReturn(kind, msg) ==
    /\ ret' = Result(kind, msg, NoBlock)
    /\ UNCHANGED <<threshold, votes, weights, config, state, last_block_time,
                   fr_reject, quorum_seen, pc, vote, blk>>
    /\ UNCHANGED stateVars

\* What one call of the manager returns and the set it leaves.
ManagerOutcome(kind, msg, set) == [kind |-> kind, msg |-> msg, set |-> set]

\* register_validator without the limit on the number of validators.
RegisterValidatorUnlimited(set, id, stake) ==
    IF stake < MinStake
    THEN ManagerOutcome("InsufficientStake", ToString(stake), set)
    ELSE ManagerOutcome("Ok", "()",
                        AddValidator(set, NewValidator(id, stake, <<id>>)))

\* register_validator; InsufficientStake carries the stake.
RegisterValidatorOn(set, id, stake) ==
    IF stake < MinStake
    THEN ManagerOutcome("InsufficientStake", ToString(stake), set)
    ELSE IF Cardinality(DOMAIN set.validators) >= ManagerMaxValidators
    THEN ManagerOutcome("InvalidValidatorSet",
                        "Maximum validator limit reached", set)
    ELSE ManagerOutcome("Ok", "()",
                        AddValidator(set, NewValidator(id, stake, <<id>>)))

\* update_stake: the validator is looked up first.
UpdateStakeOn(set, id, new_stake) ==
    IF id \in DOMAIN set.validators
    THEN IF new_stake < MinStake
         THEN ManagerOutcome("InsufficientStake", ToString(new_stake), set)
         ELSE ManagerOutcome("Ok", "()",
                             [set EXCEPT !.validators[id].stake = new_stake])
    ELSE ManagerOutcome("InvalidValidatorSet", "Validator not found", set)

\* update_performance
UpdatePerformanceOn(set, id, produced_block) ==
    IF id \in DOMAIN set.validators
    THEN LET was == set.validators[id].performance
             blocks_produced ==
                 was.blocks_produced + (IF produced_block THEN 1 ELSE 0)
             blocks_missed ==
                 was.blocks_missed + (IF produced_block THEN 0 ELSE 1)
             total_blocks == blocks_produced + blocks_missed
         IN  ManagerOutcome("Ok", "()",
                 [set EXCEPT !.validators[id].performance =
                     [blocks_produced |-> blocks_produced,
                      blocks_missed |-> blocks_missed,
                      uptime |-> [num |-> blocks_produced,
                                  den |-> total_blocks]]])
    ELSE ManagerOutcome("InvalidValidatorSet", "Validator not found", set)

\* register_validator
RegisterValidator ==
    /\ validators.total_stake <= MaxTotalStake
    /\ \E id \in ValidatorIds, stake \in Stakes :
          LET r == RegisterValidatorOn(validators, id, stake)
          IN  /\ validators' = r.set
              /\ ManagerReturn(r.kind, r.msg)

\* update_stake
UpdateStake ==
    \E id \in ValidatorIds, new_stake \in Stakes :
        LET r == UpdateStakeOn(validators, id, new_stake)
        IN  /\ validators' = r.set
            /\ ManagerReturn(r.kind, r.msg)

\* remove_validator of the manager.  total_stake -= stake below zero
\* panics in a build with overflow checks and wraps in one without.
RemoveValidator ==
    \E id \in ValidatorIds :
        \/ /\ validators' = RemoveValidatorFrom(validators, id)
           /\ ManagerReturn("Ok", "()")
        \/ /\ id \in DOMAIN validators.validators
           /\ validators.validators[id].stake > validators.total_stake
           /\ validators' = RemoveValidatorPanicked(validators, id)
           /\ ManagerReturn("Panic", "attempt to subtract with overflow")

InitValidators ==
    /\ InitVoting
    /\ threshold = [num |-> 67, den |-> 100]

NextValidators ==
    \/ RegisterValidator
    \/ UpdateStake
    \/ RemoveValidator

SpecValidators == InitValidators /\ [][NextValidators]_vars

(***************************************************************************)
(* Properties of the validator set (checked under SpecValidators)          *)
(***************************************************************************)
RECURSIVE SumStakes(_)
SumStakes(vs) ==
    IF DOMAIN vs = {} THEN 0
    ELSE LET i == CHOOSE j \in DOMAIN vs : TRUE
         IN  vs[i].stake + SumStakes([j \in DOMAIN vs \ {i} |-> vs[j]])

\* C11: the cached total_stake is the sum of the stakes of the members.
C11_TotalStakeIsSum ==
    validators.total_stake = SumStakes(validators.validators)

(***************************************************************************)
(* The StateTransition at work: transactions and blocks are applied to the *)
(* ledger and the caller commits a result with State::apply_modifications. *)
(***************************************************************************)
MaxCommits == 3
\* sender.balance = 1000 of setup_test_state, scaled down.
TestBalance == 2

TestProof == <<1, 2, 3>>
TestCode == <<1, 2, 3, 4>>
Alice == <<1>>
Bob == <<2>>
Carol == <<3>>

GenesisAccount(id, balance, nonce) ==
    [NewAccount(id, GeneratorKey) EXCEPT !.balance = balance, !.nonce = nonce]

\* setup_test_state with the balances and the sender's nonce varied,
\* committed as one update.
Genesis(a, b, n) ==
    ApplyModifications(NewState,
        InsertBoth(GenesisAccount(Alice, a, n), GenesisAccount(Bob, b, 0)))

\* A signed transaction with a computation proof, as
\* create_signed_transaction builds it.
SignedTransaction(tx_type, from, to, value, nonce) ==
    AddComputationProof(
        Sign(NewTransaction(tx_type, from, to, value, nonce,
                            IF tx_type = "Deploy" THEN TestCode ELSE <<>>),
             GeneratorKey),
        TestProof)

\* The transfer of scenario S1.
TestTransfer == SignedTransaction("Transfer", Alice, SomeId(Bob), 1, 0)

NonceOf(st, id) == IF HasAccount(st, id) THEN st.accounts[id].nonce ELSE 0

TypeSet == {TransactionTypes[i] : i \in 1..Len(TransactionTypes)}

OtherKey == GeneratorKey + 1

\* The values a transaction of a kind is given.
ValuesFor(tx_type) ==
    IF tx_type = "Transfer" THEN {0, 1, HalfWord}
    ELSE IF tx_type = "Deploy" THEN {0, 1} ELSE {0}

\* The receivers a transaction of a kind is given: none, a member, a
\* stranger, or the id of the contract Alice would deploy next.
TargetsFor(st, tx_type) ==
    IF tx_type = "Deploy" THEN {NoId}
    ELSE {NoId} \cup {SomeId(id) : id \in DOMAIN st.accounts
                          \cup {Carol, Alice \o <<NonceOf(st, Alice)>>}}

\* The sender's nonce and the ones next to it.
NoncesNear(st, from) ==
    {n \in 0..MaxNonce : n - NonceOf(st, from) \in {-1, 0, 1}}

TxsOf(st, tx_type, from) ==
    {SignedTransaction(tx_type, from, to, v, n) :
        to \in TargetsFor(st, tx_type), v \in ValuesFor(tx_type),
        n \in NoncesNear(st, from)}

\* Signed transactions of every kind, from a member or a stranger.
SignedInputs(st) ==
    UNION {TxsOf(st, ty, from) :
              ty \in TypeSet, from \in DOMAIN st.accounts \cup {Carol}}

\* The signed transactions without value that carry the sender's nonce.
ExactInputs(st) ==
    {tx \in SignedInputs(st) :
        /\ HasAccount(st, tx.from)
        /\ tx.nonce = NonceOf(st, tx.from)
        /\ tx.value = 0}

\* The transactions a committed state is continued with: Bob creates an
\* account under the id of the contract Alice deploys next, that account
\* sends a transfer, Alice deploys.
ChainInputs(st) ==
    LET contract_id == Alice \o <<NonceOf(st, Alice)>>
    IN  {tx \in ExactInputs(st) :
            \/ /\ tx.tx_type = "CreateAccount"
               /\ tx.from = Bob
               /\ tx.to = SomeId(contract_id)
            \/ /\ tx.tx_type = "Transfer"
               /\ tx.from = contract_id
               /\ tx.to = SomeId(Bob)
            \/ tx.tx_type = "Deploy" /\ tx.from = Alice}

\* tx with its signature or its computation proof spoilt.
Malformed(tx) ==
    {[tx EXCEPT !.signature = NoSignature],
     Sign(tx, OtherKey),
     [tx EXCEPT !.signature =
         SchemeSign(EncodeForSigning([tx EXCEPT !.value = tx.value + 1]),
                    GeneratorKey)],
     [tx EXCEPT !.computation_proof = NoBytes],
     AddComputationProof(tx, <<>>)}

\* Every kind of input is tried on a genesis state; on the states
\* committed later the chain is continued with ChainInputs.
TxInputs(st) ==
    IF st.version = NewState.version + 1
    THEN SignedInputs(st) \cup UNION {Malformed(tx) : tx \in ExactInputs(st)}
    ELSE ChainInputs(st)

\* The transactions blocks are made of: transfers between Alice and Bob and
\* the creation of Carol's account, with the sender's nonce or the next.
BlockTxs(st) ==
    {tx \in SignedInputs(st) :
        /\ tx.from \in {Alice, Bob}
        /\ tx.nonce - NonceOf(st, tx.from) \in {0, 1}
        /\ \/ /\ tx.tx_type = "Transfer" /\ tx.value = 1
              /\ tx.to \in {SomeId(Alice), SomeId(Bob)}
           \/ tx.tx_type = "CreateAccount" /\ tx.to = SomeId(Carol)}

RECURSIVE ListsUpTo(_, _)
ListsUpTo(S, n) ==
    IF n = 0 THEN {<<>>}
    ELSE LET shorter == ListsUpTo(S, n - 1)
         IN  shorter \cup {Append(l, x) : l \in shorter, x \in S}

BlockLists(st) ==
    IF st.version = NewState.version + 1
    THEN ListsUpTo(BlockTxs(st), MaxBlockLen)
    ELSE ListsUpTo(ChainInputs(st), 1)

\* A call that writes the modified accounts it returns into the State it
\* was given.
ReturnedWritten(op, transactions, out) ==
    /\ result' = [op |-> op, transactions |-> transactions,
                  base_version |-> ledger.version, out |-> out]
    /\ ledger' = IF out.kind = "Ok" /\ op # "validate_block"
                 THEN ApplyModifications(ledger, out.modified_accounts)
                 ELSE ledger
    /\ UNCHANGED <<overflow_checks, storage, update, new_state, accepted>>
    /\ UNCHANGED <<votingVars, blockVars, pc, ret, libVars>>

\* The call returns out; the State it was given is left as it was.
Returned(op, transactions, out) ==
    /\ result' = [op |-> op, transactions |-> transactions,
                  base_version |-> ledger.version, out |-> out]
    /\ UNCHANGED <<ledger, overflow_checks, storage, update, new_state, accepted>>
    /\ UNCHANGED <<votingVars, blockVars, pc, ret, libVars>>

ValidateBlockResult(st, transactions) ==
    LET valid == ValidateBlock(st, transactions)
    IN  IF valid = "ok" THEN TransitionOk(<<>>, Zero, 0)
        ELSE ValidationError(valid)

\* A call of apply_transaction on the ledger.
CallApplyTransaction ==
    /\ result = NoTransition
    /\ \E tx \in TxInputs(ledger) :
          Returned("apply_transaction", <<tx>>, ApplyTransaction(ledger, tx))

\* A call of validate_block on the ledger.
CallValidateBlock ==
    /\ result = NoTransition
    /\ \E transactions \in BlockLists(ledger) :
          Returned("validate_block", transactions,
                   ValidateBlockResult(ledger, transactions))

\* A call of apply_block on the ledger.
CallApplyBlock ==
    /\ result = NoTransition
    /\ \E transactions \in BlockLists(ledger) :
          Returned("apply_block", transactions,
                   TransitionApplyBlock(ledger, transactions))

\* The last call is made once more with the same State and transactions.
CallAgain ==
    /\ result # NoTransition
    /\ result.base_version = ledger.version
    /\ Returned(result.op, result.transactions,
                IF result.op = "apply_transaction"
                THEN ApplyTransaction(ledger, result.transactions[1])
                ELSE IF result.op = "validate_block"
                THEN ValidateBlockResult(ledger, result.transactions)
                ELSE TransitionApplyBlock(ledger, result.transactions))

\* The caller commits the modified accounts of the result it has got.
Commit ==
    /\ result.op \in {"apply_transaction", "apply_block"}
    /\ result.out.kind = "Ok"
    /\ result.base_version = ledger.version
    /\ ledger.version <= MaxCommits
    /\ ledger' = ApplyModifications(ledger, result.out.modified_accounts)
    /\ result' = NoTransition
    /\ UNCHANGED <<overflow_checks, storage, update, new_state, accepted>>
    /\ UNCHANGED <<votingVars, blockVars, pc, ret, libVars>>

\* The caller drops the result it has got.
Drop ==
    /\ result # NoTransition
    /\ result' = NoTransition
    /\ UNCHANGED <<ledger, overflow_checks, storage, update, new_state, accepted>>
    /\ UNCHANGED <<votingVars, blockVars, pc, ret, libVars>>

\* The genesis states: the test setup, the sender with a nonce, and
\* balances at the ends of the range under both builds.
GenesisStates ==
    {Genesis(TestBalance, 0, n) : n \in {0, 1}}
    \cup {Genesis(Word - 1, b, 0) : b \in {HalfWord - 1, Word - 1}}

InitTransition ==
    /\ threshold = [num |-> 67, den |-> 100]
    /\ votes = <<>>
    /\ weights = <<>>
    /\ pc = [t \in Tasks |-> "idle"]
    /\ vote = [t \in Tasks |-> NoVote]
    /\ ret = NoResult
    /\ config = TestConfig
    /\ state = NewConsensusState
    /\ last_block_time = 0
    /\ fr_reject \in {{}, {EncodeForSigning(TestTransfer)}}
    /\ validators = NewValidatorSet
    /\ quorum_seen = {}
    /\ blk = [t \in Tasks |-> NoBlock]
    /\ ledger \in GenesisStates
    /\ result = NoTransition
    /\ overflow_checks \in BOOLEAN
    /\ storage = NewState
    /\ update = [t \in Tasks |-> NoUpdate]
    /\ new_state = [t \in Tasks |-> NewState]
    /\ accepted = <<>>
    /\ IdleLib

NextTransition ==
    \/ CallApplyTransaction
    \/ CallValidateBlock
    \/ CallApplyBlock
    \/ CallAgain
    \/ Commit
    \/ Drop

SpecTransition == InitTransition /\ [][NextTransition]_vars

(***************************************************************************)
(* StateManager (state/mod.rs)                                             *)
(***************************************************************************)
\* StateUpdate::verify
VerifyUpdate(u, st) ==
    /\ u.previous_root = st.root
    /\ CalculateRoot(st, u.modified_accounts) = u.new_root

\* StateTransition::validate_update, which state/transition.rs does not
\* hold: the update is verified against the State.
TransitionValidateUpdate(st, u) == VerifyUpdate(u, st)

\* StateTransition::apply_update, which state/transition.rs does not hold:
\* a copy of the State with the update's modified accounts committed.
TransitionApplyUpdate(st, u) == ApplyModifications(st, u.modified_accounts)

\* The StateUpdate a caller makes of the TransitionResult of tx on st.
UpdateOf(st, tx) ==
    LET out == ApplyTransaction(st, tx)
    IN  [modified_accounts |-> out.modified_accounts,
         previous_root |-> st.root,
         new_root |-> out.new_root]

\* The transactions updates are made of: Alice pays Bob, Bob pays nothing
\* to Alice, Bob creates Carol's account.
ManagerTxs(st) ==
    {tx \in {SignedTransaction("Transfer", Alice, SomeId(Bob), 1,
                               NonceOf(st, Alice)),
             SignedTransaction("Transfer", Bob, SomeId(Alice), 0,
                               NonceOf(st, Bob)),
             SignedTransaction("CreateAccount", Bob, SomeId(Carol), 0,
                               NonceOf(st, Bob))} :
        ApplyTransaction(st, tx).kind = "Ok"}

\* The updates a caller hands in: made on the State as it is, made on
\* another root, or with a new root that is not the one of the accounts.
Updates(st) ==
    LET made == {UpdateOf(st, tx) : tx \in ManagerTxs(st)}
    IN  made \cup {[u EXCEPT !.previous_root = NewState.root] : u \in made}
             \cup {[u EXCEPT !.new_root = st.root] : u \in made}

ManagerFrame ==
    UNCHANGED <<votingVars, blockVars, result, overflow_checks, libVars>>

\* apply_update up to the end of validate_update, under state.read().
ValidateUpdate(t) ==
    /\ pc[t] = "idle"
    /\ Len(accepted) < MaxCommits
    /\ \E u \in Updates(ledger) :
          IF TransitionValidateUpdate(ledger, u)
          THEN /\ update' = [update EXCEPT ![t] = u]
               /\ pc' = [pc EXCEPT ![t] = "validated"]
               /\ UNCHANGED ret
          ELSE /\ ret' = Result("ValidationError", "", NoBlock)
               /\ UNCHANGED <<update, pc>>
    /\ UNCHANGED <<ledger, storage, new_state, accepted>>
    /\ ManagerFrame

\* transition_handler.apply_update(&self.state.read().await, update)
ComputeNewState(t) ==
    /\ pc[t] = "validated"
    /\ new_state' = [new_state EXCEPT ![t] =
                        TransitionApplyUpdate(ledger, update[t])]
    /\ pc' = [pc EXCEPT ![t] = "computed"]
    /\ UNCHANGED <<ledger, storage, update, accepted, ret>>
    /\ ManagerFrame

\* Mutant of SaveFailed: the State is assigned before the error returns.
SaveFailedAfterWrite(t) ==
    /\ ret' = Result("StorageError", "", NoBlock)
    /\ pc' = [pc EXCEPT ![t] = "idle"]
    /\ ledger' = new_state[t]
    /\ UNCHANGED <<storage, update, new_state, accepted>>

\* save_state returns Err: map_err makes it a StorageError and ? returns
\* it.  Both backends write all of a State or nothing (MemoryStorage never
\* fails; the disk backend writes one batch).
SaveFailed(t) ==
    /\ ret' = Result("StorageError", "", NoBlock)
    /\ pc' = [pc EXCEPT ![t] = "idle"]
    /\ UNCHANGED <<ledger, storage, update, new_state, accepted>>

\* save_state returns Ok(()).
SaveDone(t) ==
    /\ storage' = new_state[t]
    /\ pc' = [pc EXCEPT ![t] = "saved"]
    /\ UNCHANGED <<ledger, update, new_state, accepted, ret>>

\* self.storage.write().await.save_state(&new_state).map_err(..)?
SaveState(t) ==
    /\ pc[t] = "computed"
    /\ \/ SaveDone(t)
       \/ SaveFailed(t)
    /\ ManagerFrame

\* *self.state.write().await = new_state.clone(); Ok(new_state.root())
WriteState(t) ==
    /\ pc[t] = "saved"
    /\ ledger' = new_state[t]
    /\ accepted' = Append(accepted, update[t])
    /\ ret' = Result("Ok", "", NoBlock)
    /\ pc' = [pc EXCEPT ![t] = "idle"]
    /\ UNCHANGED <<storage, update, new_state>>
    /\ ManagerFrame

\* The State that initialize has loaded: the test setup.
InitStateManager ==
    /\ threshold = [num |-> 67, den |-> 100]
    /\ votes = <<>>
    /\ weights = <<>>
    /\ pc = [t \in Tasks |-> "idle"]
    /\ vote = [t \in Tasks |-> NoVote]
    /\ ret = NoResult
    /\ config = TestConfig
    /\ state = NewConsensusState
    /\ last_block_time = 0
    /\ fr_reject = {}
    /\ validators = NewValidatorSet
    /\ quorum_seen = {}
    /\ blk = [t \in Tasks |-> NoBlock]
    /\ ledger \in {Genesis(TestBalance, b, 0) : b \in {0, 1}}
    /\ result = NoTransition
    /\ overflow_checks \in BOOLEAN
    /\ storage = ledger
    /\ update = [t \in Tasks |-> NoUpdate]
    /\ new_state = [t \in Tasks |-> NewState]
    /\ accepted = <<>>
    /\ IdleLib

NextStateManager ==
    \E t \in Tasks :
        \/ ValidateUpdate(t)
        \/ ComputeNewState(t)
        \/ SaveState(t)
        \/ WriteState(t)

SpecStateManager == InitStateManager /\ [][NextStateManager]_vars

(***************************************************************************)
(* Properties of the state transition                                      *)
(***************************************************************************)
\* apply_transaction has returned Ok for the transaction LastTx on the
\* ledger.
AppliedOk ==
    /\ result.op = "apply_transaction"
    /\ result.out.kind = "Ok"
LastTx == result.transactions[1]

\* The validation rules, stated on the State and the transaction.
RulesHold(st, tx) ==
    /\ tx.from \in DOMAIN st.accounts
    /\ tx.nonce = st.accounts[tx.from].nonce
    /\ tx.signature.some
    /\ tx.signature.key = st.accounts[tx.from].public_key
    /\ tx.signature.message = EncodeForSigning(tx)
    /\ tx.computation_proof.some
    /\ Len(tx.computation_proof.bytes) > 0
    /\ tx.value <= st.accounts[tx.from].balance

ModifiedAccount(id) == result.out.modified_accounts[id]
OldAccount(id) == ledger.accounts[id]

\* C13: a valid Transfer of value v from A to an existing receiver B gives
\* modified accounts with A.balance = old A.balance - v, A.nonce = old
\* A.nonce + 1 and B.balance = old B.balance + v; a Transfer that got Ok had
\* a receiver, and the receiver exists in the State.
C13_TransferMovesValue ==
    (AppliedOk /\ LastTx.tx_type = "Transfer") =>
        /\ LastTx.to.some
        /\ LastTx.to.id \in DOMAIN ledger.accounts
        /\ ModifiedAccount(LastTx.from).balance
               = OldAccount(LastTx.from).balance - LastTx.value
        /\ ModifiedAccount(LastTx.from).nonce
               = OldAccount(LastTx.from).nonce + 1
        /\ ModifiedAccount(LastTx.to.id).balance
               = OldAccount(LastTx.to.id).balance + LastTx.value

\* C14: every transaction of every kind that apply_transaction accepts
\* gives modified accounts in which the sender's nonce is the sender's
\* nonce in the State + 1, also when the sender is the target account.
C14_SenderNonceIncremented ==
    AppliedOk =>
        /\ LastTx.from \in DOMAIN result.out.modified_accounts
        /\ ModifiedAccount(LastTx.from).nonce
               = OldAccount(LastTx.from).nonce + 1

\* The number of transactions of sender from among the first n of the list,
\* and the value they carry together.
EarlierOf(transactions, from, n) ==
    Cardinality({j \in 1..n : transactions[j].from = from})
RECURSIVE ValueOf(_, _, _)
ValueOf(transactions, from, n) ==
    IF n = 0 THEN 0
    ELSE ValueOf(transactions, from, n - 1)
         + (IF transactions[n].from = from THEN transactions[n].value ELSE 0)

\* Each sender's transactions carry consecutive ascending nonces that start
\* at the sender's nonce in the State.
ConsecutiveNonces(st, transactions) ==
    \A i \in 1..Len(transactions) :
        /\ transactions[i].from \in DOMAIN st.accounts
        /\ transactions[i].nonce
               = st.accounts[transactions[i].from].nonce
                 + EarlierOf(transactions, transactions[i].from, i - 1)

\* The rules other than the one of the nonce hold for each transaction,
\* and a sender's balance covers what its transactions carry together.
WellFormedList(st, transactions) ==
    \A i \in 1..Len(transactions) :
        LET tx == transactions[i]
        IN  /\ tx.from \in DOMAIN st.accounts
            /\ tx.signature.some
            /\ tx.signature.key = st.accounts[tx.from].public_key
            /\ tx.signature.message = EncodeForSigning(tx)
            /\ tx.computation_proof.some
            /\ Len(tx.computation_proof.bytes) > 0
            /\ ValueOf(transactions, tx.from, Len(transactions))
                   <= st.accounts[tx.from].balance

\* C15: validate_block and apply_block reject a list in which the nonces of
\* some sender have a gap or are out of order, and validate_block accepts
\* every list of otherwise valid transactions in which each sender's nonces
\* are consecutive and start at the sender's nonce in the State, for any
\* such nonce and for one or several transactions of a sender.
C15_ConsecutiveNoncesAccepted ==
    result.op \in {"validate_block", "apply_block"} =>
        /\ ~ConsecutiveNonces(ledger, result.transactions)
               => result.out.kind # "Ok"
        /\ (/\ result.op = "validate_block"
            /\ ConsecutiveNonces(ledger, result.transactions)
            /\ WellFormedList(ledger, result.transactions))
               => result.out.kind = "Ok"

RECURSIVE InOrder(_, _, _)
\* The transactions from i on applied one after the other, each to the
\* State the one before it left: the State at the end, or NewState when
\* one of them is not accepted.
InOrder(st, transactions, i) ==
    IF i > Len(transactions) THEN st
    ELSE LET one == ApplyTransaction(st, transactions[i])
         IN  IF one.kind # "Ok" THEN NewState
             ELSE InOrder(ApplyModifications(st, one.modified_accounts),
                          transactions, i + 1)

\* C16: the modified accounts of an apply_block that got Ok are the
\* accounts that applying the transactions in order, each to the State the
\* one before it left, comes to.
C16_BlockAppliesInOrder ==
    (result.op = "apply_block" /\ result.out.kind = "Ok") =>
        LET last == InOrder(ledger, result.transactions, 1)
        IN  /\ last # NewState
            /\ \A id \in DOMAIN result.out.modified_accounts :
                   /\ id \in DOMAIN last.accounts
                   /\ result.out.modified_accounts[id] = last.accounts[id]

\* A step in which a call returns, and one in which the call made before
\* is made again on the same State with the same transactions.
CallReturns == result' # NoTransition
SameCall ==
    /\ result # NoTransition
    /\ result'.op = result.op
    /\ result'.transactions = result.transactions
    /\ result'.base_version = result.base_version

C20_NonceNeverDecreases ==
    [][\A id \in DOMAIN ledger.accounts :
          /\ id \in DOMAIN ledger'.accounts
          /\ ledger'.accounts[id].nonce >= ledger.accounts[id].nonce]_vars

(***************************************************************************)
(* Properties of the StateManager                                          *)
(***************************************************************************)
\* The commitment to exactly the accounts a State holds.
CommitmentOf(st) ==
    MerkleRoot([id \in DOMAIN st.accounts |->
                   AccountSerialize(st.accounts[id])])

\* The version of the State that initialize has loaded.
LoadedVersion == NewState.version + 1

C19_UpdatesAreLinearized ==
    /\ ledger.version = LoadedVersion + Len(accepted)
    /\ \A i \in 1..Len(accepted) :
           \A id \in DOMAIN accepted[i].modified_accounts :
               \/ /\ id \in DOMAIN ledger.accounts
                  /\ ledger.accounts[id] = accepted[i].modified_accounts[id]
               \/ \E j \in (i + 1)..Len(accepted) :
                      id \in DOMAIN accepted[j].modified_accounts

(***************************************************************************)
(* Account::update_balance called again and again on one Account           *)
(***************************************************************************)
MaxCalls == 2

\* The amounts of an i64 and the balances of a u64.
Amounts == (0 - HalfWord)..(HalfWord - 1)
Balances == 0..(Word - 1)

\* The variables the single objects do not touch.
LibFrame ==
    UNCHANGED <<votingVars, blockVars, pc, ledger, result, overflow_checks,
                storage, update, new_state, accepted>>

\* account.update_balance(amount)
CallUpdateBalance ==
    /\ calls < MaxCalls
    /\ ret.kind # "Panic"
    /\ \E amount \in Amounts :
          LET r == UpdateBalance(the_account, amount)
          IN  /\ the_account' = r.account
              /\ deposited' = IF r.kind = "Ok" THEN deposited + amount
                              ELSE deposited
              /\ ret' = Result(r.kind, r.msg, NoBlock)
    /\ calls' = calls + 1
    /\ UNCHANGED notAccount
    /\ LibFrame

\* The storage keys and values set_storage is called with.
StorageKeys == {1, 2}
StorageValues == {42, 43}

\* account.set_storage(key, value)
CallSetStorage ==
    /\ calls < MaxCalls
    /\ ret.kind # "Panic"
    /\ \E key \in StorageKeys, value \in StorageValues :
          the_account' = SetStorage(the_account, key, value)
    /\ ret' = Result("Ok", "()", NoBlock)
    /\ calls' = calls + 1
    /\ UNCHANGED <<deposited, notAccount>>
    /\ LibFrame

InitAccount ==
    /\ threshold = [num |-> 67, den |-> 100]
    /\ votes = <<>>
    /\ weights = <<>>
    /\ pc = [t \in Tasks |-> "idle"]
    /\ vote = [t \in Tasks |-> NoVote]
    /\ ret = NoResult
    /\ config = TestConfig
    /\ state = NewConsensusState
    /\ last_block_time = 0
    /\ fr_reject = {}
    /\ validators = NewValidatorSet
    /\ quorum_seen = {}
    /\ blk = [t \in Tasks |-> NoBlock]
    /\ ledger = NewState
    /\ result = NoTransition
    /\ overflow_checks \in BOOLEAN
    /\ storage = NewState
    /\ update = [t \in Tasks |-> NoUpdate]
    /\ new_state = [t \in Tasks |-> NewState]
    /\ accepted = <<>>
    /\ \E balance \in Balances,
          account \in {NewAccount(<<1, 2, 3>>, GeneratorKey),
                       NewContract(<<1, 2, 3>>, TestCode, GeneratorKey)} :
          /\ the_account = [account EXCEPT !.balance = balance]
          /\ deposited = balance
    /\ calls = 0
    /\ cancels = 0
    /\ IdleLocks
    /\ IdleMerkle
    /\ IdleSelector
    /\ IdleSigner
    /\ IdleKit

NextAccount ==
    \/ CallUpdateBalance
    \/ CallSetStorage

SpecAccount == InitAccount /\ [][NextAccount]_vars

\* C21: after every sequence of update_balance calls that returned Ok the
\* balance is the first balance plus the sum of the amounts, a number of
\* 0..2^64-1 that no cast has wrapped; a call that returned an error has
\* left the balance as it was.
C21_BalanceIsSum ==
    /\ the_account.balance = deposited
    /\ the_account.balance \in Balances

\* The vote list of hash h got the one vote v appended, or is new with it.
Appended(h, v) ==
    /\ votes'[h] = Append(EntryOrInsert(votes, h), v)
    /\ v.block_hash = h

\* C24: a submit_vote that is rejected as a duplicate or for its empty
\* signature leaves the votes table as it was: the list of the hash keeps
\* its length, a vote with an empty signature is never recorded and no
\* entry is made for its hash; the table changes only by one vote of a
\* voter that had none for the hash yet.
C24_RejectedVoteLeavesTable ==
    [][/\ (\E t \in Tasks : pc[t] = "av_lock" /\ pc'[t] = "idle")
           => votes' = votes
       /\ \A h \in DOMAIN votes' :
              \/ h \in DOMAIN votes /\ votes'[h] = votes[h]
              \/ \E t \in Tasks :
                     /\ Appended(h, vote[t])
                     /\ vote[t].signature # EmptySig
                     /\ \A i \in 1..Len(EntryOrInsert(votes, h)) :
                            votes[h][i].voter # vote[t].voter]_vars

\* A duplicate was rejected and the hash has its one vote.
C24_Witness ==
    /\ ret.kind = "VotingError"
    /\ ret.msg = "Duplicate vote detected"
    /\ \E h \in DOMAIN votes : Len(votes[h]) = 1

(***************************************************************************)
(* The example of test_voting_consensus: three validators of equal weight  *)
(* and threshold 0.67.  Equal weights give the quotients 1/3, 2/3 and 3/3  *)
(* whatever the weight is.                                                 *)
(***************************************************************************)
TestThreshold == [num |-> 67, den |-> 100]

ThreeEqualWeights(h) ==
    /\ threshold = TestThreshold
    /\ \E x \in 1..MaxWeight : weights = [i \in 1..3 |-> x]
    /\ \A i \in 1..Len(votes[h]) : votes[h][i].voter \in 1..3

\* The step in which task t's submit_vote returns its boolean.
SubmitReturns(t) == pc[t] = "av_check" /\ pc'[t] = "idle"

\* C25 as stated: with three validators of equal weight and threshold 0.67
\* the first submit_vote for a hash returns false, the second returns true
\* and the third returns true.
C25_SecondVoteReachesConsensus ==
    [][\A t \in Tasks :
          SubmitReturns(t) /\ ThreeEqualWeights(vote[t].block_hash)
          => ret'.msg = (IF Len(votes[vote[t].block_hash]) >= 2
                         THEN "true" ELSE "false")]_vars

\* C25 amended: with three validators of equal weight and threshold 0.67
\* the first and the second submit_vote for a hash return false (2/3 is
\* below 0.67) and the third returns true.
C25_ThirdVoteReachesConsensus ==
    [][\A t \in Tasks :
          SubmitReturns(t) /\ ThreeEqualWeights(vote[t].block_hash)
          => /\ ret'.kind = "Ok"
             /\ ret'.msg = (IF Len(votes[vote[t].block_hash]) >= 3
                            THEN "true" ELSE "false")]_vars

C25_Witness ==
    /\ ret.kind = "Ok"
    /\ ret.msg = "false"
    /\ \A t \in Tasks : pc[t] = "idle"
    /\ \E h \in DOMAIN votes :
          /\ Len(votes[h]) = 2
          /\ ThreeEqualWeights(h)

\* The step in which task t's apply_update returns the error of save_state.
SaveFails(t) ==
    /\ pc[t] = "computed"
    /\ pc'[t] = "idle"

\* C27: when save_state fails during apply_update, apply_update returns a
\* StorageError and the in-memory State (accounts, root, version) is as it
\* was; the in-memory State changes only in a call whose save_state
\* succeeded and which returns Ok.
C27_FailedSaveLeavesState ==
    [][/\ \A t \in Tasks :
              SaveFails(t) => /\ ret'.kind = "StorageError"
                              /\ ledger' = ledger
       /\ ledger' # ledger
              => \E t \in Tasks : /\ pc[t] = "saved"
                                  /\ ret'.kind = "Ok"]_vars

\* A save has failed after an earlier update was committed: the State is
\* the committed one, not the one the failed call computed.
C27_Witness ==
    /\ ret.kind = "StorageError"
    /\ Len(accepted) = 1
    /\ ledger.version = LoadedVersion + 1
    /\ \A t \in Tasks : pc[t] = "idle"
    /\ \E t \in Tasks : new_state[t].version = LoadedVersion + 2

(***************************************************************************)
(* apply_update with cancellation: the caller drops the future of a call   *)
(* that is suspended at one of its awaits (state.read() after validation,  *)
(* storage.write(), state.write()).  Dropping runs no code of apply_update *)
(* and frees the locals of the call.                                       *)
(***************************************************************************)
Suspended == {"validated", "computed", "saved"}

MaxCancels == 1
MaxCancelCommits == 1

Cancel(t) ==
    /\ pc[t] \in Suspended
    /\ cancels < MaxCancels
    /\ cancels' = cancels + 1
    /\ pc' = [pc EXCEPT ![t] = "idle"]
    /\ ret' = Result("Cancelled", "", NoBlock)
    /\ update' = [update EXCEPT ![t] = NoUpdate]
    /\ new_state' = [new_state EXCEPT ![t] = NewState]
    /\ UNCHANGED <<ledger, storage, accepted>>
    /\ UNCHANGED <<votingVars, blockVars, result, overflow_checks>>
    /\ UNCHANGED notCancel

InitCancellation ==
    /\ InitStateManager
    /\ overflow_checks
    /\ ledger = Genesis(TestBalance, 0, 0)

\* The calls of NextStateManager, started while fewer than
\* MaxCancelCommits updates were accepted, and the cancellations.
NextCancellation ==
    \E t \in Tasks :
        \/ ValidateUpdate(t) /\ Len(accepted) < MaxCancelCommits
        \/ ComputeNewState(t)
        \/ SaveState(t)
        \/ WriteState(t)
        \/ Cancel(t)

SpecCancellation == InitCancellation /\ [][NextCancellation]_vars

\* C23: when apply_update is cancelled at a suspension point after
\* validation there is no partial commit: the cancelled call has not left
\* storage holding its new State while the in-memory State does not.
C23_NoPartialCommit ==
    [][\A t \in Tasks :
          /\ pc[t] \in Suspended
          /\ pc'[t] = "idle"
          /\ ret'.kind = "Cancelled"
          => ~(storage' = new_state[t] /\ ledger' # new_state[t])]_vars

(***************************************************************************)
(* The locks of the consensus components.  A call is the sequence of its   *)
(* lock operations in program order: an await of read() or write(), the    *)
(* drop of a guard, and the points where ? or return Err may leave the     *)
(* function, which drops every guard the call holds.  The data the calls   *)
(* work on is left out: whether a call returns early is a free choice.     *)
(*                                                                         *)
(* tokio's RwLock is fair: requests are granted in the order they were     *)
(* made, a reader behind a waiting writer waits too.                       *)
(***************************************************************************)
Acquire(l, m) == [op |-> "acquire", lock |-> l, mode |-> m]
Release(l) == [op |-> "release", lock |-> l, mode |-> "none"]
MayReturn == [op |-> "return", lock |-> "none", mode |-> "none"]

\* A guard that is a temporary of one statement.
ReadOnce(l) == <<Acquire(l, "read"), Release(l)>>
WriteOnce(l) == <<Acquire(l, "write"), Release(l)>>

\* start: *self.last_block_time.write().await = self.current_time()?
StartLocks == <<MayReturn>> \o WriteOnce("last_block_time")

\* create_block: state.read() is kept to the return; verify_block_time
\* reads last_block_time; the last statement writes it.
CreateBlockLocks ==
    <<Acquire("ConsensusState", "read"), MayReturn>>
    \o ReadOnce("last_block_time")
    \o <<MayReturn>>
    \o WriteOnce("last_block_time")
    \o <<Release("ConsensusState")>>

\* verify_block: verify_block_structure, verify_block_timing and
\* verify_block_hash, each with one guard that it drops when it returns.
VerifyBlockLocks ==
    ReadOnce("ConsensusState") \o <<MayReturn>>
    \o ReadOnce("last_block_time") \o <<MayReturn>>
    \o ReadOnce("ConsensusState") \o <<MayReturn>>

\* process_block: verify_block_producer (no lock), verify_block, then
\* state.write() for apply_block.
ProcessBlockLocks ==
    <<MayReturn>> \o VerifyBlockLocks \o WriteOnce("ConsensusState")

\* Mutant of SubmitVoteLocks: check_consensus is called before votes.write().
SubmitVoteWeightsFirst ==
    <<MayReturn, Acquire("weights", "read"), Acquire("votes", "write"),
      MayReturn, Release("votes"), Release("weights")>>

\* submit_vote: verify_vote_signature (no lock), then add_vote, which keeps
\* votes.write() across the await of check_consensus (weights.read()).
SubmitVoteLocks ==
    <<MayReturn, Acquire("votes", "write"), MayReturn>>
    \o ReadOnce("weights")
    \o <<Release("votes")>>

\* get_voting_stats: votes.read(), then weights.read(); both kept to the
\* return, dropped in reverse order of declaration.
GetVotingStatsLocks ==
    <<Acquire("votes", "read"), Acquire("weights", "read"), MayReturn,
      Release("weights"), Release("votes")>>

\* register_validator: the stake check, then validators.write() to the
\* return.  update_stake, update_performance and remove_validator take
\* the same guard in the same way.
ValidatorWriteLocks ==
    <<MayReturn, Acquire("ValidatorSet", "write"), MayReturn,
      Release("ValidatorSet")>>

Operations ==
    {"start", "create_block", "verify_block", "process_block",
     "submit_vote", "update_weights", "get_block_votes", "clear_old_votes",
     "get_voting_stats", "register_validator", "get_validator",
     "select_next_validators"}

LockProgram(operation) ==
    CASE operation = "start" -> StartLocks
      [] operation = "create_block" -> CreateBlockLocks
      [] operation = "verify_block" -> VerifyBlockLocks
      [] operation = "process_block" -> ProcessBlockLocks
      [] operation = "submit_vote" -> SubmitVoteLocks
      [] operation = "update_weights" -> WriteOnce("weights")
      [] operation = "get_block_votes" -> ReadOnce("votes")
      [] operation = "clear_old_votes" -> WriteOnce("votes")
      [] operation = "get_voting_stats" -> GetVotingStatsLocks
      [] operation = "register_validator" -> ValidatorWriteLocks
      [] operation = "get_validator" -> ReadOnce("ValidatorSet")
      [] operation = "select_next_validators" ->
             ReadOnce("ValidatorSet") \o <<MayReturn>>

Next_op(t) == Head(prog[t])
Running(t) == prog[t] # <<>>
Awaits(t, l) ==
    /\ Running(t)
    /\ Next_op(t).op = "acquire"
    /\ Next_op(t).lock = l
Queued(t, l) == \E i \in 1..Len(queue[l]) : queue[l][i].task = t
Holds(t, l) == \E i \in 1..Len(held[t]) : held[t][i].lock = l
HoldsWrite(t, l) ==
    \E i \in 1..Len(held[t]) :
        held[t][i].lock = l /\ held[t][i].mode = "write"

\* The lock can take one more guard of this mode.
Available(l, m) ==
    IF m = "read" THEN \A u \in Tasks : ~HoldsWrite(u, l)
    ELSE \A u \in Tasks : ~Holds(u, l)

\* The request of t is the oldest at l and the lock can take it.
Grantable(t, l) ==
    /\ queue[l] # <<>>
    /\ Head(queue[l]).task = t
    /\ Available(l, Head(queue[l]).mode)

RECURSIVE Without(_, _)
\* The guards of a task without the one for lock l.
Without(guards, l) ==
    IF guards = <<>> THEN <<>>
    ELSE IF Head(guards).lock = l THEN Without(Tail(guards), l)
    ELSE <<Head(guards)>> \o Without(Tail(guards), l)

LockFrame ==
    UNCHANGED <<votingVars, blockVars, pc, ret, ledger, result,
                overflow_checks, storage, update, new_state, accepted,
                notLocks>>

\* A task calls an operation.
Call(t) ==
    /\ ~Running(t)
    /\ \E operation \in Operations :
          prog' = [prog EXCEPT ![t] = LockProgram(operation)]
    /\ UNCHANGED <<held, queue>>
    /\ LockFrame

\* read().await or write().await is polled for the first time.
Request(t) ==
    /\ Running(t)
    /\ Next_op(t).op = "acquire"
    /\ ~Queued(t, Next_op(t).lock)
    /\ queue' = [queue EXCEPT ![Next_op(t).lock] =
                    Append(@, [task |-> t, mode |-> Next_op(t).mode])]
    /\ UNCHANGED <<held, prog>>
    /\ LockFrame

\* The await returns the guard.
Grant(t) ==
    /\ Running(t)
    /\ Next_op(t).op = "acquire"
    /\ Grantable(t, Next_op(t).lock)
    /\ held' = [held EXCEPT ![t] =
                   Append(@, [lock |-> Next_op(t).lock,
                              mode |-> Next_op(t).mode])]
    /\ queue' = [queue EXCEPT ![Next_op(t).lock] = Tail(@)]
    /\ prog' = [prog EXCEPT ![t] = Tail(@)]
    /\ LockFrame

\* A guard is dropped.
Drop_guard(t) ==
    /\ Running(t)
    /\ Next_op(t).op = "release"
    /\ held' = [held EXCEPT ![t] = Without(@, Next_op(t).lock)]
    /\ prog' = [prog EXCEPT ![t] = Tail(@)]
    /\ UNCHANGED queue
    /\ LockFrame

\* A ? or a return Err: the call goes on, or it returns and drops the
\* guards it holds.
ReturnPoint(t) ==
    /\ Running(t)
    /\ Next_op(t).op = "return"
    /\ \/ /\ prog' = [prog EXCEPT ![t] = Tail(@)]
          /\ UNCHANGED held
       \/ /\ prog' = [prog EXCEPT ![t] = <<>>]
          /\ held' = [held EXCEPT ![t] = <<>>]
    /\ UNCHANGED queue
    /\ LockFrame

InitLocks ==
    /\ InitVoting
    /\ threshold = TestThreshold

NextLocks ==
    \E t \in Tasks :
        \/ Call(t)
        \/ Request(t)
        \/ Grant(t)
        \/ Drop_guard(t)
        \/ ReturnPoint(t)

SpecLocks == InitLocks /\ [][NextLocks]_vars

Rank(l) == CHOOSE i \in DOMAIN LockOrder : LockOrder[i] = l

\* The locks a task holds or awaits, in the order it asked for them.
Asked(t) ==
    [i \in 1..Len(held[t]) |-> held[t][i].lock]
    \o (IF Running(t) /\ Next_op(t).op = "acquire"
        THEN <<Next_op(t).lock>> ELSE <<>>)

\* The tasks whose guard or older request keeps t waiting at l.
Blockers(t, l) ==
    {u \in Tasks \ {t} :
        \/ Holds(u, l)
        \/ \E i, j \in 1..Len(queue[l]) :
               i < j /\ queue[l][i].task = u /\ queue[l][j].task = t}
    \cup {u \in {t} : Holds(t, l)}

\* A set of tasks each of which waits at a lock for tasks of the set only.
Deadlocked(S) ==
    /\ S # {}
    /\ \A t \in S :
           \E l \in Locks :
               /\ Awaits(t, l)
               /\ Queued(t, l)
               /\ ~Grantable(t, l)
               /\ Blockers(t, l) # {}
               /\ Blockers(t, l) \subseteq S

\* C22: every call acquires the locks it holds at the same time in the
\* order ConsensusState, ValidatorSet, State, votes, weights,
\* last_block_time and never asks for a lock it holds; and no interleaving
\* of the calls reaches a deadlock.
C22_LockOrderNoDeadlock ==
    /\ \A t \in Tasks :
           \A i, j \in 1..Len(Asked(t)) :
               i < j => Rank(Asked(t)[i]) < Rank(Asked(t)[j])
    /\ \A S \in SUBSET Tasks : ~Deadlocked(S)

\* One task holds votes.write() and weights.read() (add_vote inside
\* check_consensus) while another waits for weights.write().
C22_Witness ==
    \E t, u \in Tasks :
        /\ t # u
        /\ HoldsWrite(t, "votes")
        /\ Holds(t, "weights")
        /\ Awaits(u, "weights")
        /\ Queued(u, "weights")
        /\ ~Grantable(u, "weights")

(***************************************************************************)
(* MerkleTree (state/merkle_tree.rs).  A key stands for the SHA3 digest    *)
(* get_path takes of it, read as a little-endian number; two keys whose    *)
(* digests agree on the bits the tree uses share a leaf.  hash_to_field is *)
(* taken to succeed and to be collision free.                              *)
(***************************************************************************)
MaxDepth == 2
MaxTreeCalls == 3

MerkleKeys == 0..(2 ^ (MaxDepth + 1) - 1)
MerkleValues == {<<1>>, <<2>>}

\* get_path: the bits of the first depth bytes of the digest, lowest first.
GetPath(key, depth) ==
    [i \in 1..(8 * depth) |-> (key \div (2 ^ (i - 1))) % 2 = 1]

\* hash_leaf and hash_nodes: the preimages, which differ in their length
\* (a value is shorter than two field elements).
HashLeaf(value) == <<1>> \o ToBytes(value)
HashNodes(left, right) == <<2>> \o ToBytes(left) \o ToBytes(right)

WithNode(tr, p, node) ==
    [q \in DOMAIN tr \cup {p} |-> IF q = p THEN node ELSE tr[q]]

\* child.get_or_insert_with(|| Box::new(Node { .. }))
GetOrInsert(tr, p) == IF p \in DOMAIN tr THEN tr ELSE WithNode(tr, p, EmptyNode)

Outcome(kind, tr, hash) == [kind |-> kind, tree |-> tr, hash |-> hash]

RECURSIVE UpdateLeaf(_, _, _, _, _)
\* update_leaf(node, path, depth, value) for the node at the first depth
\* bits of path.  The hash of the sibling is read by unwrap(), which
\* panics when the sibling is None; the nodes written before stay written.
UpdateLeaf(tr, max_depth, path, depth, value) ==
    LET here == SubSeq(path, 1, depth)
    IN  IF depth = max_depth
        THEN Outcome("Ok",
                     WithNode(tr, here,
                              [hash |-> HashLeaf(value),
                               value |-> SomeBytes(value)]),
                     HashLeaf(value))
        ELSE LET child == Append(here, path[depth + 1])
                 sibling == Append(here, ~path[depth + 1])
                 below == UpdateLeaf(GetOrInsert(tr, child), max_depth, path,
                                     depth + 1, value)
             IN  IF below.kind # "Ok" THEN below
                 ELSE IF sibling \notin DOMAIN below.tree
                 THEN Outcome("Panic", below.tree, Zero)
                 ELSE LET hash ==
                              IF path[depth + 1]
                              THEN HashNodes(below.tree[sibling].hash,
                                             below.hash)
                              ELSE HashNodes(below.hash,
                                             below.tree[sibling].hash)
                      IN  Outcome("Ok",
                                  WithNode(below.tree, here,
                                           [below.tree[here]
                                               EXCEPT !.hash = hash]),
                                  hash)

\* update(key, value)
Update(tr, max_depth, key, value) ==
    UpdateLeaf(tr, max_depth, GetPath(key, max_depth), 0, value)

RECURSIVE BuildProof(_, _, _, _, _)
\* build_proof(node, path, depth, proof): the sibling's hash is pushed at
\* each level on the way down, read by unwrap().
BuildProof(tr, max_depth, path, depth, proof) ==
    LET here == SubSeq(path, 1, depth)
        child == Append(here, path[depth + 1])
        sibling == Append(here, ~path[depth + 1])
    IN  IF depth = max_depth THEN [kind |-> "Ok", proof |-> proof]
        ELSE IF sibling \notin DOMAIN tr
        THEN [kind |-> "Panic", proof |-> proof]
        ELSE LET longer == Append(proof, tr[sibling].hash)
             IN  IF child \in DOMAIN tr
                 THEN BuildProof(tr, max_depth, path, depth + 1, longer)
                 ELSE [kind |-> "Ok", proof |-> longer]

\* get_proof(key)
GetProof(tr, max_depth, key) ==
    BuildProof(tr, max_depth, GetPath(key, max_depth), 0, <<>>)

RECURSIVE FoldProof(_, _, _, _)
\* The loop of verify_proof: the i-th element of the proof is hashed with
\* the current hash, on the side that path[i] gives (i counts from 0 in
\* the source, from 1 here).  path[i] panics when the proof is longer
\* than the path.
FoldProof(path, proof, i, current_hash) ==
    IF i > Len(proof) THEN [kind |-> "Ok", hash |-> current_hash]
    ELSE IF i > Len(path) THEN [kind |-> "Panic", hash |-> current_hash]
    ELSE FoldProof(path, proof, i + 1,
                   IF path[i] THEN HashNodes(proof[i], current_hash)
                   ELSE HashNodes(current_hash, proof[i]))

\* verify_proof(key, value, proof)
VerifyProof(tr, max_depth, key, value, proof) ==
    LET folded == FoldProof(GetPath(key, max_depth), proof, 1, HashLeaf(value))
    IN  [kind |-> folded.kind,
         valid |-> folded.kind = "Ok" /\ folded.hash = tr[<<>>].hash]

TreeCalls == merkle_call.calls

MerkleFrame ==
    UNCHANGED <<votingVars, blockVars, pc, ledger, result, overflow_checks,
                storage, update, new_state, accepted, notMerkle>>

\* tree.update(key, value).  After a panic that the caller catches the
\* tree holds what update_leaf had written.
CallUpdate ==
    /\ TreeCalls < MaxTreeCalls
    /\ \E key \in MerkleKeys, value \in MerkleValues :
          LET r == Update(tree, tree_depth, key, value)
          IN  /\ tree' = r.tree
              /\ ret' = Result(r.kind, "", NoBlock)
              /\ merkle_call' =
                     [op |-> "update", key |-> key, value |-> value,
                      proof |-> <<>>, calls |-> TreeCalls + 1]
    /\ UNCHANGED tree_depth
    /\ MerkleFrame

\* tree.get_proof(key)
CallGetProof ==
    /\ TreeCalls < MaxTreeCalls
    /\ \E key \in MerkleKeys :
          LET r == GetProof(tree, tree_depth, key)
          IN  /\ ret' = Result(r.kind, "", NoBlock)
              /\ merkle_call' =
                     [op |-> "get_proof", key |-> key, value |-> <<>>,
                      proof |-> r.proof, calls |-> TreeCalls + 1]
    /\ UNCHANGED <<tree, tree_depth>>
    /\ MerkleFrame

\* tree.verify_proof(key, value, &proof) with the proof get_proof returned.
CallVerifyProof ==
    /\ TreeCalls < MaxTreeCalls
    /\ merkle_call.op = "get_proof"
    /\ ret.kind = "Ok"
    /\ \E value \in MerkleValues :
          LET r == VerifyProof(tree, tree_depth, merkle_call.key, value,
                               merkle_call.proof)
          IN  /\ ret' = Result(r.kind, IF r.valid THEN "true" ELSE "false",
                               NoBlock)
              /\ merkle_call' =
                     [merkle_call EXCEPT !.op = "verify_proof",
                                         !.value = value,
                                         !.calls = TreeCalls + 1]
    /\ UNCHANGED <<tree, tree_depth>>
    /\ MerkleFrame

InitMerkle ==
    /\ threshold = TestThreshold
    /\ votes = <<>>
    /\ weights = <<>>
    /\ pc = [t \in Tasks |-> "idle"]
    /\ vote = [t \in Tasks |-> NoVote]
    /\ ret = NoResult
    /\ config = TestConfig
    /\ state = NewConsensusState
    /\ last_block_time = 0
    /\ fr_reject = {}
    /\ validators = NewValidatorSet
    /\ quorum_seen = {}
    /\ blk = [t \in Tasks |-> NoBlock]
    /\ ledger = NewState
    /\ result = NoTransition
    /\ overflow_checks = TRUE
    /\ storage = NewState
    /\ update = [t \in Tasks |-> NoUpdate]
    /\ new_state = [t \in Tasks |-> NewState]
    /\ accepted = <<>>
    /\ the_account = NewAccount(<<>>, GeneratorKey)
    /\ deposited = 0
    /\ calls = 0
    /\ cancels = 0
    /\ IdleLocks
    /\ tree = NewTree
    /\ tree_depth \in 0..MaxDepth
    /\ merkle_call = NoMerkleCall
    /\ IdleSelector
    /\ IdleSigner
    /\ IdleKit

NextMerkle ==
    \/ CallUpdate
    \/ CallGetProof
    \/ CallVerifyProof

SpecMerkle == InitMerkle /\ [][NextMerkle]_vars

(***************************************************************************)
(* The core operations called directly: the tree's calls, apply_block on   *)
(* any block, and check_consensus while the weights map is empty.          *)
(***************************************************************************)
\* Blocks that differ in what apply_block reads.
AnyBlocks ==
    {[NoBlock EXCEPT !.height = h, !.timestamp = ts, !.hash = ChainHash(1),
                     !.epoch_length = e] :
        h \in 0..MaxHeight, ts \in 0..MaxTime, e \in 0..EpochLength}

\* state.apply_block(block)
CallStateApplyBlock ==
    /\ calls < MaxCalls
    /\ \E block \in AnyBlocks :
          IF block.epoch_length = 0
          THEN /\ state' = ApplyBlockHead(state, block)
               /\ ret' = Result("Panic", "attempt to calculate the remainder with a divisor of zero", NoBlock)
          ELSE /\ state' = ApplyBlock(state, block)
               /\ ret' = Result("Ok", "()", NoBlock)
    /\ calls' = calls + 1
    /\ UNCHANGED <<config, last_block_time, fr_reject, validators, blk>>
    /\ UNCHANGED <<votingVars, pc, ledger, result, overflow_checks, storage,
                   update, new_state, accepted, the_account, deposited,
                   notAccount>>

\* check_consensus(votes) with the weights map as it is.
CallCheckConsensus ==
    /\ calls < MaxCalls
    /\ \E voter \in ValidatorIds, n \in 0..1 :
          LET block_votes ==
                  [i \in 1..n |-> [voter |-> voter, block_hash |-> ChainHash(1),
                                   signature |-> TestSig]]
          IN  ret' = Result("Ok",
                            IF CheckConsensus(block_votes, weights, threshold)
                            THEN "true" ELSE "false", NoBlock)
    /\ calls' = calls + 1
    /\ UNCHANGED <<votingVars, blockVars, pc, ledger, result, overflow_checks,
                   storage, update, new_state, accepted, the_account,
                   deposited, notAccount>>

NextCore ==
    \/ NextMerkle
    \/ CallStateApplyBlock
    \/ CallCheckConsensus

SpecCore == InitMerkle /\ [][NextCore]_vars

\* C26: no input makes a core operation abort: apply_block on any block
\* (also one with epoch_length = 0), update and get_proof on any tree (also
\* when the sibling on the path is empty) and check_consensus with an empty
\* weights map all return a result or an error value.
C26_NoAbort == ret.kind # "Panic"

\* C29: after update(k, v), for every key, value and prior tree content,
\* the proof that get_proof(k) returns makes verify_proof(k, v, proof) true
\* against the root, and verify_proof is false for a value other than v.
C29_ProofRoundTrip ==
    merkle_call.op = "update"
    => LET got == GetProof(tree, tree_depth, merkle_call.key)
       IN  /\ ret.kind = "Ok"
           /\ got.kind = "Ok"
           /\ \A value \in MerkleValues :
                  VerifyProof(tree, tree_depth, merkle_call.key, value,
                              got.proof).valid
                  <=> value = merkle_call.value

(***************************************************************************)
(* ValidatorSelector (consensus/selection.rs).  The output of the ChaCha20 *)
(* generator is a sequence that the seed fixes; a draw d stands for the    *)
(* f64 d / DrawScale in [0, 1).  The identity weight, a digest scaled to   *)
(* [0, 1], is kept with the validator as a numerator over WeightScale.     *)
(* The probabilities and the draws are compared as exact fractions.        *)
(* ValidatorSet::iter, len and total_stake are not in the source: iter is  *)
(* taken to iterate the HashMap, total_stake to return the sum add_validator*)
(* keeps.  config.min_validators is scaled down.                           *)
(***************************************************************************)
MaxCandidates == 2
MaxSelections == 2
DrawScale == 2
WeightScale == 2
SelectMinValidators == 1

CandidateIds == 1..MaxCandidates
MaxDraws == MaxSelections * MaxCandidates

\* A validator as calculate_selection_probabilities reads it.
Candidates ==
    [stake : 1..2, blocks_produced : 0..1, blocks_missed : 0..1,
     identity_weight : 1..WeightScale]

\* The orders in which a HashMap with these keys can iterate.
Orders(ids) ==
    {order \in [1..Cardinality(ids) -> ids] :
        \A i, j \in 1..Cardinality(ids) : i # j => order[i] # order[j]}

TotalStake(set) == SumValues([id \in DOMAIN set |-> set[id].stake])

\* should_select_validator(p): rng.gen::<f64>() < p, for the p that
\* calculate_selection_probabilities gives:
\*   (stake / total_stake * uptime * identity_weight).min(selection_threshold)
\* with uptime = blocks_produced / total_blocks, and 0.0 before the first
\* update_performance.
ShouldSelect(draw, validator, total_stake) ==
    LET total_blocks == validator.blocks_produced + validator.blocks_missed
    IN  /\ total_blocks > 0
        /\ draw * total_stake * total_blocks * WeightScale
               < DrawScale * validator.stake * validator.blocks_produced
                     * validator.identity_weight
        /\ draw * TestThreshold.den < DrawScale * TestThreshold.num

\* select_next_validators: one draw for each validator, in the order of
\* iteration; an error when fewer than min_validators were selected.
SelectNextValidators(set, order, generator) ==
    LET selected ==
            {order[i] : i \in {k \in 1..Len(order) :
                ShouldSelect(generator.stream[generator.position + k],
                             set[order[k]], TotalStake(set))}}
    IN  IF Cardinality(selected) < SelectMinValidators
        THEN [kind |-> "SelectionError", selected |-> {}]
        ELSE [kind |-> "Ok", selected |-> selected]

SelectFrame ==
    UNCHANGED <<votingVars, blockVars, pc, ledger, result, overflow_checks,
                storage, update, new_state, accepted, notSelect>>

\* selector.select_next_validators()
CallSelect ==
    /\ Len(selections) < MaxSelections
    /\ rng.position + Len(iteration_order) <= Len(rng.stream)
    /\ LET r == SelectNextValidators(candidates, iteration_order, rng)
       IN  /\ selections' = Append(selections, [start |-> rng.position,
                                                kind |-> r.kind,
                                                selected |-> r.selected])
           /\ ret' = Result(r.kind, "", NoBlock)
    /\ rng' = [rng EXCEPT !.position = @ + Len(iteration_order)]
    /\ UNCHANGED <<candidates, iteration_order>>
    /\ SelectFrame

\* ValidatorSelector::new: the generator starts again from the same seed.
NewSelector ==
    /\ rng.position > 0
    /\ rng' = [rng EXCEPT !.position = 0]
    /\ UNCHANGED <<candidates, iteration_order, selections, ret>>
    /\ SelectFrame

InitSelection ==
    /\ threshold = TestThreshold
    /\ votes = <<>>
    /\ weights = <<>>
    /\ pc = [t \in Tasks |-> "idle"]
    /\ vote = [t \in Tasks |-> NoVote]
    /\ ret = NoResult
    /\ config = TestConfig
    /\ state = NewConsensusState
    /\ last_block_time = 0
    /\ fr_reject = {}
    /\ validators = NewValidatorSet
    /\ quorum_seen = {}
    /\ blk = [t \in Tasks |-> NoBlock]
    /\ ledger = NewState
    /\ result = NoTransition
    /\ overflow_checks = TRUE
    /\ storage = NewState
    /\ update = [t \in Tasks |-> NoUpdate]
    /\ new_state = [t \in Tasks |-> NewState]
    /\ accepted = <<>>
    /\ the_account = NewAccount(<<>>, GeneratorKey)
    /\ deposited = 0
    /\ calls = 0
    /\ cancels = 0
    /\ IdleLocks
    /\ IdleMerkle
    /\ candidates \in [CandidateIds -> Candidates]
    /\ iteration_order \in Orders(CandidateIds)
    /\ \E stream \in [1..MaxDraws -> 0..(DrawScale - 1)] :
          rng = [stream |-> stream, position |-> 0]
    /\ selections = <<>>
    /\ IdleSigner
    /\ IdleKit

NextSelection ==
    \/ CallSelect
    \/ NewSelector

SpecSelection == InitSelection /\ [][NextSelection]_vars

OutcomeOf(selection) ==
    [kind |-> selection.kind, selected |-> selection.selected]

\* C28: validator selection is deterministic: two calls of
\* select_next_validators on the same ValidatorSet contents with the same
\* seed return the same selected set, whatever the iteration order of the
\* validator map is and however many selections were made before.
C28_SelectionDeterministic ==
    /\ \A i, j \in DOMAIN selections :
           OutcomeOf(selections[i]) = OutcomeOf(selections[j])
    /\ \A i \in DOMAIN selections :
           \A order \in Orders(CandidateIds) :
               SelectNextValidators(candidates, order,
                                    [rng EXCEPT !.position =
                                                    selections[i].start])
                   = OutcomeOf(selections[i])

(***************************************************************************)
(* SignatureScheme (crypto/signature.rs).  E::Fr is the integers modulo    *)
(* FieldOrder; a point of G1 is g * x, kept as x modulo FieldOrder (the    *)
(* group has the order of the field).  Sha3_256 followed by                *)
(* Fr::from_random_bytes is a function of the preimage that is fixed the   *)
(* first time it is taken (digests): a field element, or None for a digest *)
(* that is no canonical element.                                           *)
(***************************************************************************)
FieldOrder == 3
MaxSignCalls == 3

FieldElements == 0..(FieldOrder - 1)
NoElement == 0 - 1
Messages == {<<1>>, <<2>>}

\* g.mul(x.into_repr())
PointMul(x) == x % FieldOrder

\* The bytes generate_nonce and hash_message_and_point feed to Sha3_256: a
\* field element and a point have different widths.
NoncePreimage(message, private_key) == <<0, private_key>> \o message
PointPreimage(message, point) == <<1, point>> \o message

\* What from_random_bytes can give for a preimage, given what it gave.
DigestsOf(table, preimage) ==
    IF preimage \in DOMAIN table THEN {table[preimage]}
    ELSE FieldElements \cup {NoElement}

Remember(table, preimage, element) ==
    [q \in DOMAIN table \cup {preimage} |->
        IF q = preimage THEN element ELSE table[q]]

SignatureOf(kind, r, s) == [kind |-> kind, r |-> r, s |-> s]

\* Mutant of SignWith: s = k + h * private_key.
SignWithSum(private_key, k, h) ==
    IF k = NoElement \/ h = NoElement THEN SignatureOf("SignatureError", 0, 0)
    ELSE SignatureOf("Ok", PointMul(k), (k + h * private_key) % FieldOrder)

\* sign, given the nonce k and the hash h of (R, message): R = g * k,
\* s = k - h * private_key; a SignatureError when a digest was no element.
SignWith(private_key, k, h) ==
    IF k = NoElement \/ h = NoElement THEN SignatureOf("SignatureError", 0, 0)
    ELSE SignatureOf("Ok", PointMul(k),
                     (k + FieldOrder * FieldOrder - h * private_key)
                         % FieldOrder)

\* verify, given the hash h of (signature.r, message): g * s = R - P * h.
VerifyWith(signature, public_key, h) ==
    PointMul(signature.s)
        = (signature.r + FieldOrder * FieldOrder - public_key * h)
              % FieldOrder

SignFrame ==
    UNCHANGED <<votingVars, blockVars, pc, ledger, result, overflow_checks,
                storage, update, new_state, accepted, notSign>>

\* scheme.sign(message, &private_key)
CallSign ==
    /\ calls < MaxSignCalls
    /\ \E private_key \in FieldElements, message \in Messages :
          \E k \in DigestsOf(digests, NoncePreimage(message, private_key)) :
             LET with_k == Remember(digests,
                                    NoncePreimage(message, private_key), k)
                 point == PointPreimage(message, PointMul(k))
             IN  \E h \in (IF k = NoElement THEN {NoElement}
                           ELSE DigestsOf(with_k, point)) :
                    LET signature == SignWith(private_key, k, h)
                        key == NoncePreimage(message, private_key)
                    IN  /\ digests' = IF k = NoElement THEN with_k
                                      ELSE Remember(with_k, point, h)
                        /\ sig_call' =
                               [op |-> "sign", kind |-> signature.kind,
                                private_key |-> private_key,
                                message |-> message,
                                r |-> signature.r, s |-> signature.s,
                                public_key |-> 0, against |-> <<>>]
                        /\ first_signed' =
                               IF key \in DOMAIN first_signed
                               THEN first_signed
                               ELSE Remember(first_signed, key, signature)
                        /\ ret' = Result(signature.kind, "", NoBlock)
    /\ calls' = calls + 1
    /\ UNCHANGED <<the_account, deposited, cancels, lockVars, merkleVars,
                   selectVars, kitVars>>
    /\ UNCHANGED <<votingVars, blockVars, pc, ledger, result, overflow_checks,
                   storage, update, new_state, accepted>>

\* scheme.verify(message, &signature, &public_key) for the last signature.
CallVerify ==
    /\ calls < MaxSignCalls
    /\ sig_call.kind = "Ok"
    /\ \E public_key \in FieldElements, message \in Messages :
          \E h \in DigestsOf(digests, PointPreimage(message, sig_call.r)) :
             /\ digests' = Remember(digests,
                                    PointPreimage(message, sig_call.r), h)
             /\ sig_call' = [sig_call EXCEPT !.op = "verify",
                                             !.public_key = public_key,
                                             !.against = message]
             /\ ret' = IF h = NoElement
                       THEN Result("SignatureError", "", NoBlock)
                       ELSE Result("Ok",
                                   IF VerifyWith(sig_call, public_key, h)
                                   THEN "true" ELSE "false", NoBlock)
    /\ calls' = calls + 1
    /\ UNCHANGED first_signed
    /\ UNCHANGED <<the_account, deposited, cancels, lockVars, merkleVars,
                   selectVars, kitVars>>
    /\ UNCHANGED <<votingVars, blockVars, pc, ledger, result, overflow_checks,
                   storage, update, new_state, accepted>>

InitSignature ==
    /\ threshold = TestThreshold
    /\ votes = <<>>
    /\ weights = <<>>
    /\ pc = [t \in Tasks |-> "idle"]
    /\ vote = [t \in Tasks |-> NoVote]
    /\ ret = NoResult
    /\ config = TestConfig
    /\ state = NewConsensusState
    /\ last_block_time = 0
    /\ fr_reject = {}
    /\ validators = NewValidatorSet
    /\ quorum_seen = {}
    /\ blk = [t \in Tasks |-> NoBlock]
    /\ ledger = NewState
    /\ result = NoTransition
    /\ overflow_checks = TRUE
    /\ storage = NewState
    /\ update = [t \in Tasks |-> NoUpdate]
    /\ new_state = [t \in Tasks |-> NewState]
    /\ accepted = <<>>
    /\ IdleLib

NextSignature ==
    \/ CallSign
    \/ CallVerify

SpecSignature == InitSignature /\ [][NextSignature]_vars

\* The last call verified the last signature with the message that was
\* signed and the public key g * private_key.
VerifiedOwn ==
    /\ sig_call.op = "verify"
    /\ sig_call.against = sig_call.message
    /\ sig_call.public_key = PointMul(sig_call.private_key)

\* Signing gave what signing the same key and message gave the first time.
SignedAsBefore ==
    sig_call.op = "sign"
    => first_signed[NoncePreimage(sig_call.message, sig_call.private_key)]
           = SignatureOf(sig_call.kind, sig_call.r, sig_call.s)

MinSecurityLevel == 128
UsizeBits == 64
MaxCryptoCalls == 2

\* Levels on both sides of 128 and of 256 (where HashConfig changes the
\* variant).
SecurityLevels == {0, 1, 64, 126, 127, 128, 129, 130, 192, 256, 257, 512}

ParameterError == NoInstance("ParameterError")

\* HashConfig::new: returns Self, not a Result, and has no check.
HashConfigNew(security_level) ==
    CryptoResult("Ok", TRUE, security_level,
                 IF security_level > 256 THEN "Sha3_512" ELSE "Sha3_256",
                 0, 0)

\* SignatureScheme::new
SignatureSchemeNew(security_level) ==
    IF security_level < MinSecurityLevel THEN ParameterError
    ELSE CryptoResult("Ok", TRUE, security_level, "None", 0, 0)

\* EncryptionScheme::new: key_size = security_level / 8.
EncryptionSchemeNew(security_level) ==
    IF security_level < MinSecurityLevel THEN ParameterError
    ELSE CryptoResult("Ok", TRUE, security_level, "None",
                      security_level \div 8, 0)

\* ZKParams::setup_universal: 1 << (security_level / 2) on a usize.  A
\* shift by the width of the type or more panics in a build with overflow
\* checks and shifts by the amount modulo the width otherwise.
SetupUniversal(security_level, checks) ==
    LET amount == security_level \div 2
    IN  IF amount >= UsizeBits /\ checks THEN NoInstance("Panic")
        ELSE CryptoResult("Ok", TRUE, security_level, "None", 0,
                          amount % UsizeBits)

\* ZKParams::setup
ZKParamsSetup(security_level, checks) ==
    IF security_level < MinSecurityLevel THEN ParameterError
    ELSE SetupUniversal(security_level, checks)

\* CryptoParams::new: the struct literal evaluates HashConfig::new and then
\* ZKParams::setup(..)?.
CryptoParamsNew(security_level, checks) ==
    IF security_level < MinSecurityLevel THEN ParameterError
    ELSE LET hash_config == HashConfigNew(security_level)
             zk_params == ZKParamsSetup(security_level, checks)
         IN  IF zk_params.kind # "Ok" THEN zk_params
             ELSE CryptoResult("Ok", TRUE, security_level,
                               hash_config.variant, 0, zk_params.shift)

\* crypto::init
CryptoInit(security_level, checks) == CryptoParamsNew(security_level, checks)

Constructors ==
    {"init", "CryptoParams::new", "SignatureScheme::new",
     "EncryptionScheme::new", "ZKParams::setup", "HashConfig::new"}

Construct(op, security_level, checks) ==
    CASE op = "init" -> CryptoInit(security_level, checks)
      [] op = "CryptoParams::new" -> CryptoParamsNew(security_level, checks)
      [] op = "SignatureScheme::new" -> SignatureSchemeNew(security_level)
      [] op = "EncryptionScheme::new" -> EncryptionSchemeNew(security_level)
      [] op = "ZKParams::setup" -> ZKParamsSetup(security_level, checks)
      [] op = "HashConfig::new" -> HashConfigNew(security_level)

\* One constructor called with one security level.
CallConstructor ==
    /\ calls < MaxCryptoCalls
    /\ crypto_call.out.kind # "Panic"
    /\ \E op \in Constructors, security_level \in SecurityLevels :
          LET out == Construct(op, security_level, overflow_checks)
          IN  /\ crypto_call' = [op |-> op, security_level |-> security_level,
                                 out |-> out]
              /\ ret' = Result(out.kind, "", NoBlock)
    /\ calls' = calls + 1
    /\ UNCHANGED <<the_account, deposited, cancels, lockVars, merkleVars,
                   selectVars, signVars, manager_call, applied_time,
                   storeVars>>
    /\ UNCHANGED <<votingVars, blockVars, pc, ledger, result,
                   overflow_checks, storage, update, new_state, accepted>>

InitCrypto ==
    /\ threshold = TestThreshold
    /\ votes = <<>>
    /\ weights = <<>>
    /\ pc = [t \in Tasks |-> "idle"]
    /\ vote = [t \in Tasks |-> NoVote]
    /\ ret = NoResult
    /\ config = TestConfig
    /\ state = NewConsensusState
    /\ last_block_time = 0
    /\ fr_reject = {}
    /\ validators = NewValidatorSet
    /\ quorum_seen = {}
    /\ blk = [t \in Tasks |-> NoBlock]
    /\ ledger = NewState
    /\ result = NoTransition
    /\ overflow_checks \in BOOLEAN
    /\ storage = NewState
    /\ update = [t \in Tasks |-> NoUpdate]
    /\ new_state = [t \in Tasks |-> NewState]
    /\ accepted = <<>>
    /\ IdleLib

NextCrypto == CallConstructor

SpecCrypto == InitCrypto /\ [][NextCrypto]_vars

\* C31: every constructor of the crypto suite returns a parameter error and
\* no instance for a security level below 128, and returns an instance for
\* a level of 128 or more.
C31_RejectsBelow128 ==
    crypto_call.op # "none" =>
        IF crypto_call.security_level < MinSecurityLevel
        THEN /\ crypto_call.out.kind = "ParameterError"
             /\ ~crypto_call.out.usable
        ELSE /\ crypto_call.out.kind = "Ok"
             /\ crypto_call.out.usable

(***************************************************************************)
(* The ValidatorManager called again and again, the last call remembered   *)
(***************************************************************************)
MaxManagerCalls == 4

\* The stakes offered: two below min_stake, min_stake and one above.
OfferedStakes == {0, MinStake - 1, MinStake, MinStake + 1}

\* remove_validator of the manager in a build with or without overflow
\* checks.
RemoveValidatorOn(set, id, checks) ==
    IF /\ id \in DOMAIN set.validators
       /\ set.validators[id].stake > set.total_stake
       /\ checks
    THEN ManagerOutcome("Panic", "attempt to subtract with overflow",
                        RemoveValidatorPanicked(set, id))
    ELSE ManagerOutcome("Ok", "()", RemoveValidatorFrom(set, id))

\* One call has returned r.
ManagerCalled(op, id, stake, r) ==
    /\ validators' = r.set
    /\ ret' = Result(r.kind, r.msg, NoBlock)
    /\ manager_call' = [op |-> op, id |-> id, stake |-> stake]
    /\ calls' = calls + 1
    /\ UNCHANGED <<threshold, votes, weights, config, state, last_block_time,
                   fr_reject, quorum_seen, pc, vote, blk>>
    /\ UNCHANGED <<ledger, result, overflow_checks, storage, update,
                   new_state, accepted, the_account, deposited, cancels,
                   lockVars, merkleVars, selectVars, signVars, crypto_call,
                   applied_time, storeVars>>

ManagerReady ==
    /\ calls < MaxManagerCalls
    /\ ret.kind # "Panic"

CallRegisterValidator ==
    /\ ManagerReady
    /\ \E id \in ValidatorIds, stake \in OfferedStakes :
          ManagerCalled("register_validator", id, stake,
                        RegisterValidatorOn(validators, id, stake))

CallUpdateStake ==
    /\ ManagerReady
    /\ \E id \in ValidatorIds, new_stake \in OfferedStakes :
          ManagerCalled("update_stake", id, new_stake,
                        UpdateStakeOn(validators, id, new_stake))

CallUpdatePerformance ==
    /\ ManagerReady
    /\ \E id \in ValidatorIds, produced_block \in BOOLEAN :
          ManagerCalled("update_performance", id, 0,
                        UpdatePerformanceOn(validators, id, produced_block))

CallRemoveValidator ==
    /\ ManagerReady
    /\ \E id \in ValidatorIds :
          ManagerCalled("remove_validator", id, 0,
                        RemoveValidatorOn(validators, id, overflow_checks))

\* ValidatorManager::new(min_stake, max_validators) in either build.
InitManager == InitCrypto

NextManager ==
    \/ CallRegisterValidator
    \/ CallUpdateStake
    \/ CallUpdatePerformance
    \/ CallRemoveValidator

SpecManager == InitManager /\ [][NextManager]_vars

\* The set has at most max_validators members, each with at least
\* min_stake.
WithinLimits(set) ==
    /\ Cardinality(DOMAIN set.validators) <= ManagerMaxValidators
    /\ \A id \in DOMAIN set.validators :
          set.validators[id].stake >= MinStake

\* The call that has just returned was turned down with the stake it
\* offered and has left the set as it was.
RejectedForStake ==
    /\ ret'.kind = "InsufficientStake"
    /\ ret'.msg = ToString(manager_call'.stake)
    /\ validators' = validators

RejectedAs(msg) ==
    /\ ret'.kind = "InvalidValidatorSet"
    /\ ret'.msg = msg
    /\ validators' = validators

AtLimit == Cardinality(DOMAIN validators.validators) >= ManagerMaxValidators

\* C32 as stated: every call leaves at most max_validators members, each
\* with at least min_stake; every registration and every stake update
\* below min_stake returns InsufficientStake with the stake offered, a
\* registration at the limit returns InvalidValidatorSet, and both leave
\* the set unchanged.
C32_StakeAndLimitEnforced ==
    [][/\ WithinLimits(validators')
       /\ (/\ manager_call'.op \in {"register_validator", "update_stake"}
           /\ manager_call'.stake < MinStake) => RejectedForStake
       /\ (/\ manager_call'.op = "register_validator"
           /\ manager_call'.stake >= MinStake
           /\ AtLimit) => RejectedAs("Maximum validator limit reached")
      ]_vars

\* C32, amended: update_stake looks the validator up before it looks at the
\* stake, so a stake update below min_stake returns InsufficientStake only
\* for a member of the set, and InvalidValidatorSet for any other id.
C32_StakeAndLimitEnforcedForMembers ==
    [][/\ WithinLimits(validators')
       /\ (/\ manager_call'.op = "register_validator"
           /\ manager_call'.stake < MinStake) => RejectedForStake
       /\ (/\ manager_call'.op = "update_stake"
           /\ manager_call'.id \in DOMAIN validators.validators
           /\ manager_call'.stake < MinStake) => RejectedForStake
       /\ (/\ manager_call'.op = "update_stake"
           /\ manager_call'.id \notin DOMAIN validators.validators)
             => RejectedAs("Validator not found")
       /\ (/\ manager_call'.op = "register_validator"
           /\ manager_call'.stake >= MinStake
           /\ AtLimit) => RejectedAs("Maximum validator limit reached")
      ]_vars

\* The set is full and a stake update of a member below min_stake has
\* just been turned down.
C32_Witness ==
    /\ Cardinality(DOMAIN validators.validators) = ManagerMaxValidators
    /\ manager_call.op = "update_stake"
    /\ manager_call.stake = MinStake - 1
    /\ manager_call.id \in DOMAIN validators.validators
    /\ ret.kind = "InsufficientStake"
    /\ ret.msg = ToString(MinStake - 1)

(***************************************************************************)
(* The storage map of an Account (checked under SpecAccount)               *)
(***************************************************************************)
\* C33: an account without a code hash has an empty storage map in every
\* reachable state: no operation adds or changes a storage entry of an
\* account that is not a contract.
C33_StorageOnlyOnContracts ==
    ~IsContract(the_account) => DOMAIN the_account.storage = {}

(***************************************************************************)
(* create_block on a producer that was started once: the tasks create,     *)
(* verify and apply blocks, none of them calls start() again.              *)
(***************************************************************************)
NextProducer ==
    \E t \in Tasks :
        \/ CreateBlock(t)
        \/ VerifyBlockTime(t)
        \/ CreateBlockFinish(t)
        \/ ProcessBlock(t)
        \/ VerifyBlockStructure(t)
        \/ VerifyBlockTiming(t)
        \/ VerifyBlockHash(t)
        \/ ApplyBlockStep(t)

SpecProducer == InitBlock /\ [][NextProducer]_vars

\* Task t's create_block returns in this step with a block.
CreatesBlock(t) ==
    /\ pc[t] = "cb_write"
    /\ pc'[t] = "idle"
    /\ ret'.kind = "Ok"

\* Task t's create_block returns in this step with an error.
CreateFails(t) ==
    /\ pc[t] \in {"cb_time", "cb_write"}
    /\ pc'[t] = "idle"
    /\ ret'.kind # "Ok"

\* C34: a create_block that returns a block returns it at a time now that
\* is at least block_time after last_block_time, which is the timestamp of
\* the block created before (so no two created blocks are less than
\* block_time apart), sets last_block_time to now, and the block has height
\* state.height + 1, timestamp now and prev_hash state.last_block_hash; a
\* create_block that fails leaves last_block_time as it was.
C34_BlockTimeDiscipline ==
    [][\A t \in Tasks :
         /\ CreatesBlock(t) =>
              /\ ret'.block.timestamp >= last_block_time + config.block_time
              /\ last_block_time' = ret'.block.timestamp
              /\ ret'.block.timestamp = blk[t].timestamp
              /\ ret'.block.height = state.height + 1
              /\ ret'.block.prev_hash = state.last_block_hash
         /\ CreateFails(t) => last_block_time' = last_block_time]_vars

(***************************************************************************)
(* A node that only verifies: it was started at some time and one task     *)
(* hands it one block after the other (process_block, each call run to its *)
(* return before the next); it never calls create_block.  The blocks       *)
(* offered follow the chain: their timestamps are taken relative to the    *)
(* timestamp of the block applied last (before the first block, relative   *)
(* to the time of start).                                                  *)
(***************************************************************************)
MaxChain == 3

\* The time the next block of the chain is measured from.
ChainTime == IF state.height = 0 THEN last_block_time ELSE applied_time

\* The block that follows the chain at the least spacing: correct height,
\* prev_hash and hash, timestamp block_time after the last block's.
NextInChain == HonestBlock(state, config, ChainTime)

\* process_block(block) from call to return: the message of the error, or
\* "ok" when the block was applied.
ProcessBlockError(b, st, last_time, cfg) ==
    IF VerifyBlockProducer(b) # "ok" THEN VerifyBlockProducer(b)
    ELSE IF StructureError(b, st) # "ok" THEN StructureError(b, st)
    ELSE IF TimingError(b, last_time, cfg) # "ok"
    THEN TimingError(b, last_time, cfg)
    ELSE HashError(b, st)

\* The blocks offered: those of BlockInputs, and the block of the chain
\* with an epoch_length of one.
VerifierInputs ==
    BlockInputs(state, config, ChainTime)
    \cup {[NextInChain EXCEPT !.epoch_length = 1]}

VerifierFrame ==
    /\ UNCHANGED <<config, last_block_time, fr_reject, validators, blk, pc>>
    /\ UNCHANGED <<votingVars, ledger, result, overflow_checks, storage,
                   update, new_state, accepted, notKit, crypto_call,
                   manager_call, storeVars>>

\* process_block(b) for a block of the chain or one that differs from it
\* in one field.
ReceiveBlock ==
    /\ state.height < MaxChain
    /\ ret.kind # "Panic"
    /\ \E b \in VerifierInputs :
          LET error == ProcessBlockError(b, state, last_block_time, config)
          IN  IF error # "ok"
              THEN /\ ret' = Result(IF VerifyBlockProducer(b) # "ok"
                                    THEN "InvalidIdentityProof"
                                    ELSE "InvalidBlock", error, NoBlock)
                   /\ UNCHANGED <<state, applied_time>>
              ELSE IF b.epoch_length = 0
              THEN /\ state' = ApplyBlockHead(state, b)
                   /\ applied_time' = b.timestamp
                   /\ ret' = Result("Panic", "attempt to calculate the remainder with a divisor of zero", NoBlock)
              ELSE /\ state' = ApplyBlock(state, b)
                   /\ applied_time' = b.timestamp
                   /\ ret' = Result("Ok", "()", NoBlock)
    /\ VerifierFrame

\* Consensus::new and initialize: start() has set last_block_time.
InitVerifier ==
    /\ threshold = TestThreshold
    /\ votes = <<>>
    /\ weights = <<>>
    /\ pc = [t \in Tasks |-> "idle"]
    /\ vote = [t \in Tasks |-> NoVote]
    /\ ret = NoResult
    /\ config = TestConfig
    /\ state = NewConsensusState
    /\ last_block_time \in Times
    /\ fr_reject = {}
    /\ validators = TestValidatorSet
    /\ quorum_seen = {}
    /\ blk = [t \in Tasks |-> NoBlock]
    /\ IdleState

NextVerifier == ReceiveBlock

SpecVerifier == InitVerifier /\ [][NextVerifier]_vars

\* C35: on a node that only verifies, once a block with timestamp t was
\* accepted and applied, the block with the next height, the right
\* prev_hash and hash and the timestamp t + block_time is accepted.
C35_ChainKeepsAdvancing ==
    state.height >= 1 =>
        ProcessBlockError(NextInChain, state, last_block_time, config) = "ok"

\* C36 (checked under SpecVerifier): after the accepted blocks of heights
\* 1..n were applied, epoch is the number of those heights that are
\* multiples of the configured epoch_length, and epoch_start is the
\* timestamp of the last such block (0 before the first); the epoch_length
\* a block carries does not move the boundary.
C36_EpochAtConfiguredBoundary ==
    /\ state.epoch = state.height \div config.epoch_length
    /\ state.height < config.epoch_length => state.epoch_start = 0
    /\ (state.height >= 1 /\ state.height % config.epoch_length = 0)
          => state.epoch_start = applied_time

(***************************************************************************)
(* The frame of the ConsensusState (checked under SpecNode)                *)
(***************************************************************************)
\* Task t's process_block ends in this step with a successful apply_block.
AppliesBlock(t) ==
    /\ pc[t] = "pb_apply"
    /\ pc'[t] = "idle"
    /\ ret'.kind = "Ok"

\* Task t's process_block runs apply_block in this step, to its return or
\* to its panic.
RunsApplyBlock(t) ==
    /\ pc[t] = "pb_apply"
    /\ pc'[t] = "idle"

RECURSIVE SumBalances(_)
\* The sum of the balances of a map of accounts, as a number.
SumBalances(accounts) ==
    IF DOMAIN accounts = {} THEN 0
    ELSE LET id == CHOOSE i \in DOMAIN accounts : TRUE
         IN  accounts[id].balance
             + SumBalances([i \in DOMAIN accounts \ {id} |-> accounts[i]])

\* C38: for every Transfer that apply_transaction accepted, one from an
\* account to itself included, the balances of the State with the modified
\* accounts merged in add up to what the balances of the State added up to
\* before.
C38_TransferConservesFunds ==
    (AppliedOk /\ LastTx.tx_type = "Transfer") =>
        SumBalances(ApplyModifications(ledger,
                        result.out.modified_accounts).accounts)
            = SumBalances(ledger.accounts)

(***************************************************************************)
(* State proofs (state/types.rs): get_account_proof and verify_proof       *)
(***************************************************************************)
\* The depth of the tree both functions build, MerkleTree::new(256), kept
\* small: a path has 8 * depth bits here as there.
StateTreeDepth == 1

\* The SHA3 digest of an account id as get_path reads it, one number for
\* each id.
IdDigest(id) == IF id = <<>> THEN 0 ELSE id[1]

\* State::get_account
GetAccount(st, id) ==
    IF HasAccount(st, id) THEN SomeAccount(st.accounts[id]) ELSE NoAccount

RECURSIVE UpdateAll(_, _, _)
\* The loop of get_account_proof: merkle_tree.update(&acc_id.0, &bytes) for
\* the accounts of the state, until one of the updates fails.
UpdateAll(tr, accounts, ids) ==
    IF ids = {} THEN Outcome("Ok", tr, Zero)
    ELSE LET id == CHOOSE i \in ids : TRUE
             r == Update(tr, StateTreeDepth, IdDigest(id),
                         AccountSerialize(accounts[id]))
         IN  IF r.kind # "Ok" THEN r
             ELSE UpdateAll(r.tree, accounts, ids \ {id})

\* State::get_account_proof(id)
GetAccountProof(st, id) ==
    LET filled == UpdateAll(NewTree, st.accounts, DOMAIN st.accounts)
        path == IF filled.kind = "Ok"
                THEN GetProof(filled.tree, StateTreeDepth, IdDigest(id))
                ELSE [kind |-> filled.kind, proof |-> <<>>]
    IN  [kind |-> path.kind,
         proof |-> StateProof(id, GetAccount(st, id), path.proof, st.root)]

\* State::verify_proof(proof): the tree is a new one; what its
\* verify_proof returns is dropped unless it fails, and the result is the
\* comparison of the two roots.
StateVerifyProof(st, proof) ==
    LET checked ==
            IF proof.account.some
            THEN VerifyProof(NewTree, StateTreeDepth,
                             IdDigest(proof.account_id),
                             AccountSerialize(proof.account.account),
                             proof.merkle_proof)
            ELSE [kind |-> "Ok", valid |-> TRUE]
    IN  [kind |-> checked.kind,
         valid |-> checked.kind = "Ok" /\ proof.root = st.root]

\* A proof longer than a path of the tree.
LongProof == [i \in 1..(8 * StateTreeDepth + 1) |-> Zero]

\* The account records a proof is given for an id: none, the one the state
\* holds, and one that differs from it in the nonce.
RecordsFor(st, id) ==
    {NoAccount, GetAccount(st, id)}
    \cup {SomeAccount([GetAccount(st, id).account EXCEPT !.id = id,
                                                          !.nonce = 7])}

\* The proofs offered to verify_proof: for a member and for a stranger,
\* with the root of the state or another one.
OfferedProofs(st) ==
    {StateProof(id, account, merkle_proof, root) :
        id \in {Alice, Carol},
        account \in RecordsFor(st, Alice) \cup RecordsFor(st, Carol),
        merkle_proof \in {<<>>, <<Zero>>, LongProof},
        root \in {st.root, Zero}}

ProofFrame ==
    /\ UNCHANGED <<config, state, last_block_time, fr_reject, validators,
                   blk, pc, ret>>
    /\ UNCHANGED <<votingVars, ledger, result, overflow_checks, storage,
                   update, new_state, accepted, notKit, crypto_call,
                   manager_call, applied_time, memory, db, storage_call,
                   last_saved>>

\* state.get_account_proof(&id)
CallGetAccountProof ==
    /\ \E id \in {Alice, Carol} :
          LET r == GetAccountProof(ledger, id)
          IN  proof_call' = [op |-> "get_account_proof", proof |-> r.proof,
                             kind |-> r.kind, valid |-> FALSE]
    /\ ProofFrame

\* state.verify_proof(&proof)
CallStateVerifyProof ==
    /\ \E proof \in OfferedProofs(ledger) :
          LET r == StateVerifyProof(ledger, proof)
          IN  proof_call' = [op |-> "verify_proof", proof |-> proof,
                             kind |-> r.kind, valid |-> r.valid]
    /\ ProofFrame

NextProof ==
    \/ CallGetAccountProof
    \/ CallStateVerifyProof

SpecProof == InitTransition /\ [][NextProof]_vars

\* C39: verify_proof returns true only for a proof that carries the root
\* of the state and the account record the state holds under the proof's
\* account id.
C39_ProofBindsAccount ==
    (proof_call.op = "verify_proof" /\ proof_call.valid) =>
        /\ proof_call.proof.root = ledger.root
        /\ proof_call.proof.account
               = GetAccount(ledger, proof_call.proof.account_id)

(***************************************************************************)
(* StateStorage (state/storage.rs): MemoryStorage and PersistentStorage.   *)
(* The database is the map from key to value that RocksDB keeps; its       *)
(* reads and writes are taken to succeed, DB::destroy and DB::open in      *)
(* clear may fail.                                                         *)
(***************************************************************************)
MaxStorageCalls == 3

SerializationError == [kind |-> "SerializationError", account |-> NoAccount]

RECURSIVE InsertPairs(_, _, _, _)
\* The loop of Account::deserialize over the storage entries: the key at
\* the offset, the value behind it, storage.insert(key, value).
InsertPairs(bytes, offset, left, map) ==
    IF left = 0 THEN map
    ELSE InsertPairs(bytes, offset + 2, left - 1,
                     [k \in DOMAIN map \cup {bytes[offset]} |->
                         IF k = bytes[offset] THEN bytes[offset + 1]
                         ELSE map[k]])

\* Account::deserialize: the fields are read one behind the other, the
\* offset moved by the size of each; a read past the end is an error.
AccountDeserialize(bytes) ==
    IF Len(bytes) < 1 \/ Len(bytes) < bytes[1] + 5
    THEN SerializationError
    ELSE LET id_len == bytes[1]
             nonce_at == id_len + 2
             has_code_at == nonce_at + 4 + bytes[nonce_at + 3]
         IN  IF Len(bytes) < has_code_at + 1 THEN SerializationError
             ELSE LET has_code == bytes[has_code_at] = 1
                      hash_len == IF has_code THEN bytes[has_code_at + 1]
                                  ELSE 0
                      len_at == IF has_code
                                THEN has_code_at + 2 + hash_len
                                ELSE has_code_at + 1
                  IN  IF Len(bytes) < len_at
                         \/ Len(bytes) < len_at + 2 * bytes[len_at]
                      THEN SerializationError
                      ELSE [kind |-> "Ok",
                            account |-> SomeAccount(
                              [id |-> SubSeq(bytes, 2, id_len + 1),
                               nonce |-> bytes[nonce_at],
                               balance |-> bytes[nonce_at + 1],
                               public_key |-> bytes[nonce_at + 2],
                               code_hash |->
                                   IF has_code
                                   THEN SomeFr(SubSeq(bytes, has_code_at + 2,
                                                      len_at - 1))
                                   ELSE NoFr,
                               storage |-> InsertPairs(bytes, len_at + 1,
                                                       bytes[len_at],
                                                       <<>>)])]

\* PersistentStorage::account_key and root_key
AccountKey(id) == <<1>> \o id
RootKey == <<0>>

\* state.root.serialize and E::Fr::deserialize: the bytes of one field
\* element.
RootSerialize(root) == <<root>>
RootDeserialize(bytes) == IF bytes = <<>> THEN Zero ELSE bytes[1]

\* db.put, db.delete and db.get(..).unwrap_or_default()
DbPut(d, key, value) ==
    [k \in DOMAIN d \cup {key} |-> IF k = key THEN value ELSE d[k]]
DbDelete(d, key) == [k \in DOMAIN d \ {key} |-> d[k]]
DbGetOrDefault(d, key) == IF key \in DOMAIN d THEN d[key] ELSE <<>>

\* What a call returned: the State of load_state (its accounts and its
\* root), the account of get_account.
NoSaved == [some |-> FALSE, accounts |-> <<>>, root |-> Zero]
SomeSaved(accounts, root) ==
    [some |-> TRUE, accounts |-> accounts, root |-> root]

Loaded(kind, accounts, root) ==
    [kind |-> kind, state |-> SomeSaved(accounts, root)]

\* MemoryStorage
MemoryLoadState(m) == Loaded("Ok", m.accounts, m.root)
MemorySaveState(m, st) == [accounts |-> st.accounts, root |-> st.root]
MemoryGetAccount(m, id) ==
    [kind |-> "Ok",
     account |-> IF id \in DOMAIN m.accounts
                 THEN SomeAccount(m.accounts[id]) ELSE NoAccount]
MemorySaveAccount(m, account) ==
    [m EXCEPT !.accounts = DbPut(m.accounts, account.id, account)]
MemoryDeleteAccount(m, id) ==
    [m EXCEPT !.accounts = DbDelete(m.accounts, id)]
MemoryClear == NewMemoryStorage

\* PersistentStorage::load_state: the root under the root key, and every
\* value under a key that begins with 0x01, inserted under the id it holds.
PersistentLoadState(d) ==
    LET keys == {k \in DOMAIN d : k[1] = 1}
        read == [k \in keys |-> AccountDeserialize(d[k])]
        ids == {read[k].account.account.id : k \in keys}
    IN  IF \E k \in keys : read[k].kind # "Ok"
        THEN [kind |-> "SerializationError", state |-> NoSaved]
        ELSE Loaded("Ok",
                    [id \in ids |->
                        LET k == CHOOSE key \in keys :
                                     read[key].account.account.id = id
                        IN  read[k].account.account],
                    RootDeserialize(DbGetOrDefault(d, RootKey)))

RECURSIVE PutAccounts(_, _, _)
\* The loop of save_state: batch.put for each account of the State.
PutAccounts(d, accounts, ids) ==
    IF ids = {} THEN d
    ELSE LET id == CHOOSE i \in ids : TRUE
         IN  PutAccounts(DbPut(d, AccountKey(accounts[id].id),
                               AccountSerialize(accounts[id])),
                         accounts, ids \ {id})

\* PersistentStorage::save_state: one batch that puts the root and the
\* accounts of the State.
PersistentSaveState(d, st) ==
    PutAccounts(DbPut(d, RootKey, RootSerialize(st.root)), st.accounts,
                DOMAIN st.accounts)

PersistentGetAccount(d, id) ==
    IF AccountKey(id) \in DOMAIN d THEN AccountDeserialize(d[AccountKey(id)])
    ELSE [kind |-> "Ok", account |-> NoAccount]

PersistentSaveAccount(d, account) ==
    DbPut(d, AccountKey(account.id), AccountSerialize(account))

PersistentDeleteAccount(d, id) == DbDelete(d, AccountKey(id))

PersistentGetStorageRoot(d) == RootDeserialize(DbGetOrDefault(d, RootKey))

\* The accounts and the States the calls are given: two ids in two
\* versions and a contract with a storage entry; the empty State, one with
\* the first account and one with the second.
StoredAccounts ==
    {GenesisAccount(id, b, 0) : id \in {Alice, Bob}, b \in {0, 1}}
    \cup {SetStorage(NewContract(Carol, TestCode, GeneratorKey), 1, 42)}

SavedStates ==
    {NewState,
     ApplyModifications(NewState,
                        [id \in {Alice} |-> GenesisAccount(Alice, 1, 0)]),
     ApplyModifications(NewState,
                        [id \in {Bob} |-> GenesisAccount(Bob, 0, 0)])}

StorageCall(op, on, kind, id, account, st) ==
    [op |-> op, on |-> on, kind |-> kind, id |-> id, account |-> account,
     state |-> st,
     follows |-> IF /\ storage_call.op = "save_state"
                    /\ storage_call.on = on
                    /\ storage_call.kind = "Ok"
                 THEN storage_call.state ELSE NoSaved]

\* One call on the storage `on` has returned: what the two storages hold
\* afterwards, the call, and the accounts last saved to the storage.
StorageCalled(on, m, d, call, saved) ==
    /\ memory' = (IF on = "MemoryStorage" THEN m ELSE memory)
    /\ db' = (IF on = "PersistentStorage" THEN d ELSE db)
    /\ storage_call' = call
    /\ last_saved' = [last_saved EXCEPT ![on] = saved]
    /\ calls' = calls + 1
    /\ UNCHANGED <<the_account, deposited, cancels, lockVars, merkleVars,
                   selectVars, signVars, crypto_call, manager_call,
                   applied_time, proof_call>>
    /\ UNCHANGED <<votingVars, blockVars, pc, ret, ledger, result,
                   overflow_checks, storage, update, new_state, accepted>>

StorageReady == calls < MaxStorageCalls

\* storage.save_account(&account)
CallSaveAccount ==
    /\ StorageReady
    /\ \E on \in StorageKinds, account \in StoredAccounts :
          StorageCalled(on, MemorySaveAccount(memory, account),
                        PersistentSaveAccount(db, account),
                        StorageCall("save_account", on, "Ok", account.id,
                                    SomeAccount(account), NoSaved),
                        DbPut(last_saved[on], account.id, account))

\* storage.delete_account(&id)
CallDeleteAccount ==
    /\ StorageReady
    /\ \E on \in StorageKinds, id \in {Alice, Bob} :
          StorageCalled(on, MemoryDeleteAccount(memory, id),
                        PersistentDeleteAccount(db, id),
                        StorageCall("delete_account", on, "Ok", id,
                                    NoAccount, NoSaved),
                        DbDelete(last_saved[on], id))

\* storage.save_state(&state)
CallSaveState ==
    /\ StorageReady
    /\ \E on \in StorageKinds, st \in SavedStates :
          StorageCalled(on, MemorySaveState(memory, st),
                        PersistentSaveState(db, st),
                        StorageCall("save_state", on, "Ok", <<>>, NoAccount,
                                    SomeSaved(st.accounts, st.root)),
                        st.accounts)

\* storage.clear(): the PersistentStorage destroys the database and opens
\* a new one, or returns the error of DB::destroy with the database as it
\* was.
CallClear ==
    /\ StorageReady
    /\ \E on \in StorageKinds :
          \E kind \in IF on = "MemoryStorage" THEN {"Ok"}
                      ELSE {"Ok", "StorageError"} :
              StorageCalled(on, MemoryClear,
                            IF kind = "Ok" THEN NewDb ELSE db,
                            StorageCall("clear", on, kind, <<>>, NoAccount,
                                        NoSaved),
                            IF kind = "Ok" THEN <<>> ELSE last_saved[on])

\* storage.load_state()
CallLoadState ==
    /\ StorageReady
    /\ \E on \in StorageKinds :
          LET r == IF on = "MemoryStorage" THEN MemoryLoadState(memory)
                   ELSE PersistentLoadState(db)
          IN  StorageCalled(on, memory, db,
                            StorageCall("load_state", on, r.kind, <<>>,
                                        NoAccount, r.state),
                            last_saved[on])

\* storage.get_account(&id)
CallGetAccount ==
    /\ StorageReady
    /\ \E on \in StorageKinds, id \in {Alice, Bob, Carol} :
          LET r == IF on = "MemoryStorage" THEN MemoryGetAccount(memory, id)
                   ELSE PersistentGetAccount(db, id)
          IN  StorageCalled(on, memory, db,
                            StorageCall("get_account", on, r.kind, id,
                                        r.account, NoSaved),
                            last_saved[on])

\* storage.get_storage_root()
CallGetStorageRoot ==
    /\ StorageReady
    /\ \E on \in StorageKinds :
          StorageCalled(on, memory, db,
                        StorageCall("get_storage_root", on, "Ok", <<>>,
                                    NoAccount,
                                    SomeSaved(<<>>,
                                        IF on = "MemoryStorage"
                                        THEN memory.root
                                        ELSE PersistentGetStorageRoot(db))),
                        last_saved[on])

NextStorage ==
    \/ CallSaveAccount
    \/ CallDeleteAccount
    \/ CallSaveState
    \/ CallClear
    \/ CallLoadState
    \/ CallGetAccount
    \/ CallGetStorageRoot

SpecStorage == InitCrypto /\ [][NextStorage]_vars

\* The account last saved under an id to a storage: by save_account or as
\* one of the accounts of save_state, none after delete_account, after
\* clear, and after a save_state whose State has no account of that id.
LastSaved(on, id) ==
    IF id \in DOMAIN last_saved[on] THEN SomeAccount(last_saved[on][id])
    ELSE NoAccount

\* C40: on either storage, after any calls, a load_state that follows
\* save_state(s) returns the accounts and the root of s and nothing else,
\* and get_account returns the account last saved under the id, or none
\* when it was deleted or cleared since.
C40_StorageRoundTrip ==
    /\ (storage_call.op = "load_state" /\ storage_call.follows.some) =>
           /\ storage_call.kind = "Ok"
           /\ storage_call.state = storage_call.follows
    /\ storage_call.op = "get_account" =>
           /\ storage_call.kind = "Ok"
           /\ storage_call.account
                  = LastSaved(storage_call.on, storage_call.id)

====
